---- MODULE Spec2Model ----
(***************************************************************************)
(* Runtime toolset registry of the DCT MCP server                          *)
(* (dct_mcp_server/tools/core/meta_tools.py, tool_factory.py) together     *)
(* with the catalog loader and the confirmation policy it consults         *)
(* (dct_mcp_server/config/loader.py).                                      *)
(*                                                                         *)
(* Spec      : the five meta-tools called one after the other, each call   *)
(*             one atomic step.                                            *)
(* SpecConc  : enable_toolset / disable_toolset run by several worker      *)
(*             threads, one step per read or write of the module globals   *)
(*             and of the host's tool table, plus a concurrent reader.     *)
(***************************************************************************)
EXTENDS Integers, Sequences, FiniteSets, TLC

\* ------------------------------------------------------------------ bounds
\* Worker threads of the host that may run a meta-tool at the same time.
NThreads == 2
\* Host add_tool / remove_tool calls that may raise within one handler call.
MaxFail == 1
\* Depth of @inherit nesting followed before the interpreter gives up
\* (RecursionError); the catalogs below nest one level.
MaxInheritDepth == 3
\* Host calls that raise in one run of the concurrent specification.
MaxFaults == 1

None == "None"

Range(s) == {s[i] : i \in 1..Len(s)}

\* ------------------------------------------------------- catalog sources
\* One line of a toolset file, tokenised: a "# TOOL n: name - description"
\* header, an "@inherit:parent" directive, a "METHOD|path|action" entry or
\* any other comment.  A path is its sequence of segments.
ToolHeader(name, desc) ==
  [k |-> "tool", name |-> name, desc |-> desc, method |-> "", path |-> <<>>, action |-> ""]
Inherit(parent) ==
  [k |-> "inherit", name |-> parent, desc |-> "", method |-> "", path |-> <<>>, action |-> ""]
Api(method, path, action) ==
  [k |-> "api", name |-> "", desc |-> "", method |-> method, path |-> path, action |-> action]
Comment ==
  [k |-> "comment", name |-> "", desc |-> "", method |-> "", path |-> <<>>, action |-> ""]

\* The toolsets directory: file stem -> lines.  reporting_insights inherits
\* from a toolset whose file is absent; platform_admin declares a group
\* with no entries and a group named like a meta-tool; one entry of
\* self_service_provision spells its method in lower case.
ToolsetFiles ==
  [ self_service |->
      << Comment,
         ToolHeader("vdb_tool", "VDB Operations"),
         Api("POST", <<"vdbs", "search">>, "search_vdbs"),
         Api("GET", <<"vdbs", "{vdbId}">>, "get_vdb"),
         ToolHeader("job_tool", "Job Operations"),
         Api("GET", <<"jobs", "{jobId}">>, "get_job") >>,
    self_service_provision |->
      << Inherit("self_service"),
         ToolHeader("vdb_tool", "VDB Operations"),
         Api("POST", <<"vdbs", "provision_by_snapshot">>, "provision_vdb"),
         Api("DELETE", <<"vdbs", "{vdbId}">>, "delete_vdb"),
         ToolHeader("snapshot_tool", "Snapshot Operations"),
         Api("POST", <<"snapshots", "search">>, "search_snapshots"),
         Api("delete", <<"snapshots", "{snapshotId}">>, "delete_snapshot") >>,
    platform_admin |->
      << Api("GET", <<"management", "orphan">>, "orphan"),
         ToolHeader("engine_tool", "Engine Operations"),
         Api("GET", <<"management", "engines", "{engineId}">>, "get_engine"),
         ToolHeader("tag_tool", ""),
         ToolHeader("enable_toolset", "Shadowing group"),
         Api("GET", <<"management", "toolsets">>, "list") >>,
    reporting_insights |->
      << ToolHeader("reporting_tool", "Reports"),
         Api("POST", <<"reporting", "search">>, "search_reports"),
         Inherit("reporting_base") >> ]

\* get_available_toolsets: the stems of the files in the toolsets directory.
GetAvailableToolsets == DOMAIN ToolsetFiles

\* Names a caller may pass: every available toolset and one that is not.
ToolsetNames == GetAvailableToolsets \cup {"no_such_toolset"}

\* ------------------------------------------------------------ the loader
LoadFailed ==
  [ok |-> FALSE, order |-> <<>>, apis |-> <<>>, desc |-> <<>>, cur |-> ""]

EmptyGrouped ==
  [ok |-> TRUE, order |-> <<>>, apis |-> <<>>, desc |-> <<>>, cur |-> ""]

\* "# TOOL" header: set the current tool; create its entry when it is new.
OnToolHeader(st, ln) ==
  IF ln.name # "" /\ ln.name \notin DOMAIN st.apis
    THEN [st EXCEPT !.cur = ln.name,
                    !.order = Append(st.order, ln.name),
                    !.apis = (ln.name :> <<>>) @@ st.apis,
                    !.desc = (ln.name :> ln.desc) @@ st.desc]
    ELSE [st EXCEPT !.cur = ln.name]

\* "@inherit:": append every parent group's entries to the group of the
\* same name, creating it (with the parent's description) when absent.
MergeParent(st, p) ==
  LET fresh == SelectSeq(p.order, LAMBDA g : g \notin DOMAIN st.apis)
      dom   == DOMAIN st.apis \cup Range(p.order)
  IN [st EXCEPT
        !.order = st.order \o fresh,
        !.apis = [g \in dom |->
                    (IF g \in DOMAIN st.apis THEN st.apis[g] ELSE <<>>)
                    \o (IF g \in DOMAIN p.apis THEN p.apis[g] ELSE <<>>)],
        !.desc = [g \in dom |->
                    IF g \in DOMAIN st.desc THEN st.desc[g] ELSE p.desc[g]]]

\* "METHOD|path|action": appended to the current tool, dropped without one.
OnApiLine(st, ln) ==
  IF st.cur # ""
    THEN [st EXCEPT !.apis[st.cur] =
            Append(@, [method |-> ln.method, path |-> ln.path, action |-> ln.action])]
    ELSE st

RECURSIVE LoadToolsetGroupedApisAt(_, _)
RECURSIVE ParseGroupedLines(_, _, _, _)

ParseGroupedLines(lines, i, st, depth) ==
  IF i > Len(lines) THEN st
  ELSE LET ln == lines[i] IN
    CASE ln.k = "tool" -> ParseGroupedLines(lines, i + 1, OnToolHeader(st, ln), depth)
      [] ln.k = "comment" -> ParseGroupedLines(lines, i + 1, st, depth)
      [] ln.k = "inherit" ->
           IF ln.name \notin DOMAIN ToolsetFiles THEN LoadFailed
           ELSE LET p == LoadToolsetGroupedApisAt(ln.name, depth + 1) IN
                IF ~p.ok THEN LoadFailed
                ELSE ParseGroupedLines(lines, i + 1, MergeParent(st, p), depth)
      [] OTHER -> ParseGroupedLines(lines, i + 1, OnApiLine(st, ln), depth)

LoadToolsetGroupedApisAt(toolset_name, depth) ==
  IF toolset_name \notin DOMAIN ToolsetFiles \/ depth > MaxInheritDepth
    THEN LoadFailed
    ELSE ParseGroupedLines(ToolsetFiles[toolset_name], 1, EmptyGrouped, depth)

\* load_toolset_grouped_apis: ok = FALSE stands for the raised ValueError.
LoadToolsetGroupedApis(toolset_name) == LoadToolsetGroupedApisAt(toolset_name, 0)

\* load_toolset_metadata: None when the file is absent, else the count of
\* "# TOOL" headers of the file itself.
LoadToolsetMetadata(toolset_name) ==
  IF toolset_name \notin DOMAIN ToolsetFiles
    THEN [found |-> FALSE, tool_count |-> 0]
    ELSE [found |-> TRUE,
          tool_count |-> Len(SelectSeq(ToolsetFiles[toolset_name],
                                       LAMBDA ln : ln.k = "tool"))]

\* ------------------------------------------------- confirmation policy
\* Rules of manual_confirmation.txt in file order: METHOD|pattern|level|
\* message.  level is kept split at ":" (tier, then the threshold in days).
ConfirmationRules ==
  << [method |-> "DELETE", path_pattern |-> <<"vdbs", "{vdbId}">>,
      level |-> <<"manual">>, message |-> "Deleting a VDB is permanent"],
     [method |-> "*", path_pattern |-> <<"vdbs", "{vdbId}">>,
      level |-> <<"standard">>, message |-> "Confirm the VDB operation"],
     [method |-> "DELETE", path_pattern |-> <<"snapshots", "{snapshotId}">>,
      level |-> <<"retention_check", 30>>, message |-> "Check retention"],
     [method |-> "*", path_pattern |-> <<"jobs", "{jobId}">>,
      level |-> <<"standard">>, message |-> "Confirm the job operation"],
     [method |-> "DELETE", path_pattern |-> <<"jobs", "{jobId}">>,
      level |-> <<"manual">>, message |-> "Abandoning a job is permanent"],
     [method |-> "DELETE", path_pattern |-> <<"management", "engines", "{engineId}">>,
      level |-> <<"manual">>, message |-> "Unregistering an engine is permanent"] >>

\* Segments of the form {identifier}.
ParamSegments == {"{vdbId}", "{jobId}", "{engineId}", "{snapshotId}"}

\* _path_matches: every {identifier} of the pattern becomes [^/]+ and the
\* whole pattern is anchored, so segment counts agree, a placeholder takes
\* one non-empty segment and a literal segment must be equal.
PathMatches(path, pattern) ==
  /\ Len(path) = Len(pattern)
  /\ \A i \in 1..Len(pattern) :
       IF pattern[i] \in ParamSegments THEN path[i] # "" ELSE path[i] = pattern[i]

NoConfirmation ==
  [level |-> "none", message |-> None, conditional |-> FALSE, threshold_days |-> -1]

RECURSIVE ConfirmationFrom(_, _, _)
ConfirmationFrom(i, method, path) ==
  IF i > Len(ConfirmationRules) THEN NoConfirmation
  ELSE LET rule == ConfirmationRules[i] IN
    IF rule.method # "*" /\ rule.method # method
      THEN ConfirmationFrom(i + 1, method, path)
    ELSE IF PathMatches(path, rule.path_pattern)
      THEN [level |-> rule.level[1],
            message |-> rule.message,
            conditional |-> Len(rule.level) > 1,
            threshold_days |-> IF Len(rule.level) > 1 THEN rule.level[2] ELSE -1]
    ELSE ConfirmationFrom(i + 1, method, path)

\* get_confirmation_for_operation: the first rule, in file order, whose
\* method and path both match; threshold_days -1 stands for None.
GetConfirmationForOperation(method, path) == ConfirmationFrom(1, method, path)

\* str.upper on the method spellings callers pass.
MethodInputs == {"GET", "DELETE", "delete", "Post"}
Upper(m) ==
  CASE m = "delete" -> "DELETE"
    [] m = "Post" -> "POST"
    [] OTHER -> m

PathInputs ==
  { <<"vdbs", "vdb-1">>, <<"vdbs", "search">>, <<"snapshots", "snap-1">>,
    <<"vdbs", "vdb-1", "delete">> }

\* ------------------------------------------------------------- the host
\* The five names register_meta_tools adds to the host.
MetaToolNames ==
  { "list_available_toolsets", "get_toolset_tools", "enable_toolset",
    "disable_toolset", "check_operation_confirmation" }

\* generate_tools_for_toolset: one grouped tool per group that has at least
\* one entry, in the catalog's group order; raises when the load raises.
GenerateFrom(grouped_apis) ==
  IF ~grouped_apis.ok THEN [ok |-> FALSE, tools |-> <<>>]
  ELSE [ok |-> TRUE,
        tools |-> SelectSeq(grouped_apis.order,
                            LAMBDA t : grouped_apis.apis[t] # <<>>)]

GenerateToolsForToolset(toolset_name) ==
  GenerateFrom(LoadToolsetGroupedApis(toolset_name))

\* What each toolset synthesises, computed once.
Generated == [n \in GetAvailableToolsets |-> GenerateToolsForToolset(n)]

\* The catalog of each toolset file, loaded once.
Catalog == [n \in GetAvailableToolsets |-> LoadToolsetGroupedApis(n)]

\* The group names of a toolset's catalog (none when it does not load).
GroupNamesOf(toolset_name) ==
  IF toolset_name \in DOMAIN Catalog THEN Range(Catalog[toolset_name].order) ELSE {}

AllToolNames ==
  MetaToolNames \cup UNION {GroupNamesOf(n) : n \in GetAvailableToolsets}

FailSets(S) == {F \in SUBSET S : Cardinality(F) <= MaxFail}

\* ------------------------------------------------------------------ state
VARIABLES
  current,      \* _current_toolset: None or the active toolset's name
  registered,   \* _registered_tool_names, as the set of names it holds
  hostTools,    \* names in the host's tool table (_tools of the tool manager)
  appReady,     \* _app is set (initialize_tool_inventory has run)
  inventory,    \* keys of _tool_inventory
  last,         \* the latest meta-tool call: its input, response and pre-state
  prev,         \* the call before it (operation, argument, status)
  pc,           \* per thread: where it stands inside enable/disable
  targ,         \* per thread: toolset_name of the running enable_toolset
  before,       \* per thread: before_tools of _register_toolset_tools
  pre,          \* per thread: registry and host as its call found them
  faults,       \* raised host calls so far, MaxFaults once a load has raised
  overlapped,   \* a call has begun while another was running
  obs,          \* what the concurrent reader sees of the present state
  pol,          \* the latest policy lookup: its input and what it returned
  call,         \* the latest unified-tool invocation and its outcome
  ld,           \* the toolsets directory, the loader's cache, the latest load
  cfg,          \* the configuration files as they stand, the caches over them
  req,          \* the make_request call in progress: attempts, waits, outcome
  grp,          \* the latest get_tool_for_api call and the mapping it read
  tx            \* the latest request a unified tool built for the transport

regVars == <<current, registered, hostTools, appReady, inventory>>
seqVars == <<last, prev>>
concVars == <<pc, targ, before, pre, faults, overlapped, obs>>
fnVars == <<pol, call, ld>>
extVars == <<cfg, req, grp, tx>>
vars == <<current, registered, hostTools, appReady, inventory, last, prev,
          pc, targ, before, pre, faults, overlapped, obs, pol, call, ld,
          cfg, req, grp, tx>>

Threads == 1..NThreads

Snapshot == [cur |-> current, reg |-> registered, host |-> hostTools]

\* A meta-tool's returned map, with the call that produced it.
Response(op, arg, status, error, available, previous, count, calls, snap) ==
  [op |-> op, arg |-> arg, status |-> status, error |-> error,
   available |-> available, previous |-> previous, count |-> count,
   calls |-> calls, pre |-> snap]

Brief(r) == [op |-> r.op, arg |-> r.arg, status |-> r.status]

\* ------------------------------------------------------ registry pieces
\* Mutant of NewTools: the baseline taken before registration is ignored.
NewToolsNoBaseline(after_tools, before_tools) == after_tools

\* new_tools = after_tools - before_tools
NewTools(after_tools, before_tools) == after_tools \ before_tools

\* _disable_current_toolset_internal: every tracked name is removed from
\* the host unless that removal raises (logged and skipped); the tracked
\* list is emptied either way.  Nothing is done for an empty list.
DisableCurrentToolsetInternal(reg, host, rmFail) ==
  IF reg = {}
    THEN [reg |-> reg, host |-> host, calls |-> 0]
    ELSE [reg |-> {}, host |-> host \ (reg \ rmFail), calls |-> Cardinality(reg)]

\* register_toolset_tools (tool_factory): generate, then add_tool each; an
\* add that raises is logged and skipped.
AddGenerated(host, g, addFail) ==
  IF ~g.ok
    THEN [raised |-> TRUE, host |-> host, calls |-> 0]
    ELSE [raised |-> FALSE, host |-> host \cup (Range(g.tools) \ addFail),
          calls |-> Len(g.tools)]

RegisterToolsetTools(host, toolset_name, addFail) ==
  AddGenerated(host,
               IF toolset_name \in DOMAIN Generated THEN Generated[toolset_name]
               ELSE [ok |-> FALSE, tools |-> <<>>],
               addFail)

\* _register_toolset_tools (meta_tools): the names that appear on the host
\* across the registration are appended to the tracked list.
TrackNewTools(reg, before_tools, r) ==
  IF r.raised
    THEN [raised |-> TRUE, reg |-> reg, host |-> before_tools, count |-> 0, calls |-> 0]
    ELSE [raised |-> FALSE, reg |-> reg \cup NewTools(r.host, before_tools),
          host |-> r.host,
          count |-> Cardinality(NewTools(r.host, before_tools)), calls |-> r.calls]

RegisterToolsetToolsInternal(reg, host, inv, toolset_name, addFail) ==
  IF toolset_name \notin inv
    THEN [raised |-> FALSE, reg |-> reg, host |-> host, count |-> 0, calls |-> 0]
    ELSE TrackNewTools(reg, host, RegisterToolsetTools(host, toolset_name, addFail))

\* enable_toolset from "Register the new toolset's tools" on: d is what the
\* disabling of the previous toolset left, r what the registration did.
EnableFinish(snap, toolset_name, d, r) ==
  IF r.raised
    THEN [cur |-> snap.cur, reg |-> d.reg, host |-> d.host,
          resp |-> Response("enable", toolset_name, "error", "exception",
                            {}, None, 0, d.calls, snap)]
  ELSE IF ~LoadToolsetMetadata(toolset_name).found
    THEN [cur |-> toolset_name, reg |-> r.reg, host |-> r.host,
          resp |-> Response("enable", toolset_name, "error", "exception",
                            {}, None, 0, d.calls + r.calls, snap)]
  ELSE [cur |-> toolset_name, reg |-> r.reg, host |-> r.host,
        resp |-> Response("enable", toolset_name, "enabled", "",
                          {}, snap.cur, r.count, d.calls + r.calls, snap)]

EnableSwitch(snap, inv, toolset_name, addFail, d) ==
  EnableFinish(snap, toolset_name, d,
               RegisterToolsetToolsInternal(d.reg, d.host, inv, toolset_name, addFail))

\* Mutant of EnableToolsetResult: the known-name test is missing.
EnableToolsetUnchecked(snap, ready, inv, toolset_name, rmFail, addFail) ==
  IF ~ready
    THEN [cur |-> snap.cur, reg |-> snap.reg, host |-> snap.host,
          resp |-> Response("enable", toolset_name, "none", "not_initialized",
                            {}, None, 0, 0, snap)]
  ELSE
    EnableSwitch(snap, inv, toolset_name, addFail,
                 IF snap.cur # None
                   THEN DisableCurrentToolsetInternal(snap.reg, snap.host, rmFail)
                   ELSE [reg |-> snap.reg, host |-> snap.host, calls |-> 0])

\* enable_toolset.  snap is the registry and host as found; the result is
\* the registry and host as left, and the returned map.
EnableToolsetResult(snap, ready, inv, toolset_name, rmFail, addFail) ==
  IF toolset_name \notin GetAvailableToolsets
    THEN [cur |-> snap.cur, reg |-> snap.reg, host |-> snap.host,
          resp |-> Response("enable", toolset_name, "none", "unknown_toolset",
                            GetAvailableToolsets, None, 0, 0, snap)]
  ELSE IF ~ready
    THEN [cur |-> snap.cur, reg |-> snap.reg, host |-> snap.host,
          resp |-> Response("enable", toolset_name, "none", "not_initialized",
                            {}, None, 0, 0, snap)]
  ELSE
    EnableSwitch(snap, inv, toolset_name, addFail,
                 IF snap.cur # None
                   THEN DisableCurrentToolsetInternal(snap.reg, snap.host, rmFail)
                   ELSE [reg |-> snap.reg, host |-> snap.host, calls |-> 0])

DisableFinish(snap, d) ==
  [cur |-> None, reg |-> d.reg, host |-> d.host,
   resp |-> Response("disable", None, "disabled", "",
                     {}, snap.cur, Cardinality(snap.reg), d.calls, snap)]

\* Mutant of DisableToolsetResult: the "already minimal" test is missing.
DisableToolsetNoIdleTest(snap, rmFail) ==
  DisableFinish(snap, DisableCurrentToolsetInternal(snap.reg, snap.host, rmFail))

\* disable_toolset.
DisableToolsetResult(snap, rmFail) ==
  IF snap.cur = None
    THEN [cur |-> snap.cur, reg |-> snap.reg, host |-> snap.host,
          resp |-> Response("disable", None, "already_minimal", "",
                            {}, None, 0, 0, snap)]
    ELSE DisableFinish(snap, DisableCurrentToolsetInternal(snap.reg, snap.host, rmFail))

\* list_available_toolsets: one entry per toolset file; reads only.
ListAvailableToolsetsResult(snap) ==
  Response("list", None, "ok", "", GetAvailableToolsets, None,
           Cardinality(GetAvailableToolsets), 0, snap)

\* list_available_toolsets when reading the toolsets directory raises
\* (OSError): the except branch answers {"error", "toolsets": [],
\* "total_count": 0}.
ListAvailableToolsetsFailed(snap) ==
  Response("list", "OSError", "none", "exception", {}, None, 0, 0, snap)

\* get_toolset_tools: unknown name -> error with the available names; a
\* load that raises -> error; else one entry per group of the catalog.
GetToolsetToolsResult(snap, toolset_name) ==
  IF toolset_name \notin GetAvailableToolsets
    THEN Response("describe", toolset_name, "none", "unknown_toolset",
                  GetAvailableToolsets, None, 0, 0, snap)
  ELSE IF ~Catalog[toolset_name].ok
    THEN Response("describe", toolset_name, "none", "exception", {}, None, 0, 0, snap)
    ELSE Response("describe", toolset_name, "ok", "", {}, None,
                  Len(Catalog[toolset_name].order), 0, snap)

\* check_operation_confirmation with method.upper() outside the try.
CheckOperationConfirmationUncaught(snap, method, api_path) ==
  IF method = None
    THEN Response("classify", None, "raised", "", {}, None, 0, 0, snap)
    ELSE Response("classify", Upper(method),
                  GetConfirmationForOperation(Upper(method), api_path).level, "",
                  {}, None,
                  GetConfirmationForOperation(Upper(method), api_path).threshold_days,
                  0, snap)

\* check_operation_confirmation: classify (method.upper(), api_path); the
\* status field carries the level.  A method of None makes method.upper()
\* raise inside the try, and the except branch answers {"error"}.
CheckOperationConfirmationResult(snap, method, api_path) ==
  IF method = None
    THEN Response("classify", None, "none", "exception", {}, None, 0, 0, snap)
    ELSE Response("classify", Upper(method),
                  GetConfirmationForOperation(Upper(method), api_path).level, "",
                  {}, None,
                  GetConfirmationForOperation(Upper(method), api_path).threshold_days,
                  0, snap)

\* ---------------------------------------------- calls, one after another
NoCallRunning == \A t \in Threads : pc[t] = "idle"

\* A handler's result written back: the globals, the host, the response.
Apply(r) ==
  /\ current' = r.cur
  /\ registered' = r.reg
  /\ hostTools' = r.host
  /\ last' = r.resp
  /\ prev' = Brief(last)

EnableToolset(toolset_name, rmFail, addFail) ==
  /\ NoCallRunning
  /\ Apply(EnableToolsetResult(Snapshot, appReady, inventory,
                               toolset_name, rmFail, addFail))
  /\ UNCHANGED <<appReady, inventory>>
  /\ UNCHANGED <<concVars, fnVars, extVars>>

DisableToolset(rmFail) ==
  /\ NoCallRunning
  /\ Apply(DisableToolsetResult(Snapshot, rmFail))
  /\ UNCHANGED <<appReady, inventory>>
  /\ UNCHANGED <<concVars, fnVars, extVars>>

ListAvailableToolsets(readRaises) ==
  /\ NoCallRunning
  /\ last' = IF readRaises THEN ListAvailableToolsetsFailed(Snapshot)
             ELSE ListAvailableToolsetsResult(Snapshot)
  /\ prev' = Brief(last)
  /\ UNCHANGED regVars
  /\ UNCHANGED <<concVars, fnVars, extVars>>

\* Mutant of GetToolsetTools: describing a known toolset marks it active.
GetToolsetToolsMarking(toolset_name) ==
  /\ NoCallRunning
  /\ last' = GetToolsetToolsResult(Snapshot, toolset_name)
  /\ prev' = Brief(last)
  /\ current' = IF toolset_name \in GetAvailableToolsets THEN toolset_name ELSE current
  /\ UNCHANGED <<registered, hostTools, appReady, inventory>>
  /\ UNCHANGED <<concVars, fnVars, extVars>>

GetToolsetTools(toolset_name) ==
  /\ NoCallRunning
  /\ last' = GetToolsetToolsResult(Snapshot, toolset_name)
  /\ prev' = Brief(last)
  /\ UNCHANGED regVars
  /\ UNCHANGED <<concVars, fnVars, extVars>>

CheckOperationConfirmation(method, api_path) ==
  /\ NoCallRunning
  /\ last' = CheckOperationConfirmationResult(Snapshot, method, api_path)
  /\ prev' = Brief(last)
  /\ UNCHANGED regVars
  /\ UNCHANGED <<concVars, fnVars, extVars>>

\* Tools a successful generation of toolset_name would add.
ToolsToAdd(toolset_name) ==
  IF toolset_name \in DOMAIN Generated THEN Range(Generated[toolset_name].tools)
  ELSE {}

\* No policy lookup made yet.
NoLookup ==
  [op |-> "none", method |-> "", path |-> <<>>, result |-> NoConfirmation,
   str |-> <<>>, pat |-> <<>>, matched |-> FALSE]

\* What a unified tool hands to DCTAPIClient.make_request, if anything.
NoTransport == [called |-> FALSE, method |-> "", path |-> <<>>, params |-> {}]

\* What a unified tool returns, with the transport call it made.
ToolResult(status, available, level, param, transport) ==
  [status |-> status, available |-> available, level |-> level,
   param |-> param, transport |-> transport]

\* No unified tool invoked yet.
NoCall ==
  [kind |-> "none", tool |-> "", action |-> "", kwargs |-> <<>>, tier |-> "none",
   method |-> "", path |-> <<>>, members |-> {}, result |-> ToolResult("none", {}, "none", "", NoTransport)]

\* Files that may stand in the toolsets directory while the loader is
\* called: those above, the parent reporting_insights names, and a toolset
\* that inherits in the middle of its file, repeats an entry of its parent
\* and reuses an action name of its parent for another path.
DirectoryFiles ==
  ToolsetFiles @@
  [ reporting_base |->
      << ToolHeader("reporting_tool", "Reports"),
         Api("GET", <<"reporting", "storage">>, "get_storage"),
         ToolHeader("audit_tool", "Audit"),
         Api("POST", <<"audit", "search">>, "search_audit") >>,
    continuous_data |->
      << ToolHeader("vdb_tool", "VDB Operations"),
         Api("GET", <<"vdbs", "{vdbId}">>, "get_vdb"),
         Inherit("self_service"),
         Api("POST", <<"vdbs", "{vdbId}", "refresh">>, "refresh_vdb"),
         ToolHeader("job_tool", "Job Operations"),
         Api("GET", <<"jobs", "{jobId}", "result">>, "get_job") >> ]

\* The files that are there when the server starts.
FilesAtStart == DOMAIN DirectoryFiles \ {"reporting_base"}

\* The loader before its first call: nothing cached, nothing returned.
LoaderStart ==
  [files |-> FilesAtStart, cache |-> <<>>, returned |-> <<>>, op |-> "none",
   name |-> "", ok |-> FALSE, result |-> <<>>, before |-> <<>>, same |-> TRUE,
   failed |-> {}]

\* Toolset files whose @inherit directives lead back to the file itself.
CycleFiles ==
  [ cyc_a |->
      << ToolHeader("x_tool", "X"),
         Api("GET", <<"x">>, "get_x"),
         Inherit("cyc_b") >>,
    cyc_b |->
      << ToolHeader("y_tool", "Y"),
         Api("GET", <<"y">>, "get_y"),
         Inherit("cyc_a") >>,
    cyc_self |->
      << ToolHeader("s_tool", "S"),
         Inherit("cyc_self"),
         Api("GET", <<"s">>, "get_s") >> ]

\* The toolsets directory a running server may be pointed at: a toolset, a
\* toolset that inherits it, and the files above.
ConfigDirectory ==
  [n \in {"self_service", "self_service_provision"} |-> ToolsetFiles[n]] @@ CycleFiles

\* tool_grouping.txt as it may stand, in file order: tool_name|patterns|
\* description, the patterns split at ",".  A path or pattern is its
\* sequence of characters.
GroupingLine(tool_name, patterns) == [tool_name |-> tool_name, patterns |-> patterns]

GroupingSources ==
  { << GroupingLine("a_tool", << <<"/", "a">> >>),
       GroupingLine("ab_tool", << <<"/", "a", "/", "b">> >>),
       GroupingLine("b_tool", << <<"/", "b", "/">>, <<"/", "a", "b">> >>) >>,
    << GroupingLine("ab_tool", << <<"/", "a", "/", "b">> >>),
       GroupingLine("a_tool", << <<"/", "a">> >>),
       GroupingLine("b_tool", << <<"/", "b", "/">>, <<"/", "a", "b">> >>) >>,
    << GroupingLine("b_tool", << <<"/", "b">> >>),
       GroupingLine("a_tool", << <<"/", "a", "/">> >>),
       GroupingLine("b_tool", << <<"/", "a", "/", "b">> >>) >>,
    << >> }

\* manual_confirmation.txt as it may stand: the rules above, or the file
\* without its first rule.
RuleSources == {ConfirmationRules, Tail(ConfirmationRules)}

\* The configuration before any load: nothing cached.  The two caches of
\* one entry hold a sequence that is empty or has the stored value.
ConfigStart ==
  [dir |-> ConfigDirectory, mapping |-> << >>, rules |-> ConfirmationRules,
   flat |-> << >>, grouped |-> << >>, grouping |-> << >>, confirmation |-> << >>,
   edits |-> 0, clean |-> FALSE,
   op |-> "none", name |-> "", kind |-> "none", result |-> << >>]

\* No request under way.
NoRequest ==
  [pc |-> "idle", max_retries |-> 0, attempt |-> 0, outcomes |-> << >>,
   slept |-> << >>, result |-> "none"]

\* No group resolved yet.
NoGrouping == [op |-> "none", source |-> << >>, path |-> << >>, result |-> ""]

\* No request built yet.
NoBuild ==
  [kind |-> "none", action |-> "", args |-> << >>, status |-> "none", method |-> "",
   path |-> << >>, inPath |-> {}, query |-> {}, body |-> {}, required |-> {},
   fields |-> {}]

\* After register_meta_tools_only: the five meta-tools are on the host and
\* the inventory is initialised when a DCT client was supplied.
Init ==
  /\ current = None
  /\ registered = {}
  /\ hostTools = MetaToolNames
  /\ appReady \in BOOLEAN
  /\ inventory = IF appReady THEN GetAvailableToolsets ELSE {}
  /\ last = Response("start", None, "none", "", {}, None, 0, 0,
                     [cur |-> None, reg |-> {}, host |-> MetaToolNames])
  /\ prev = [op |-> "start", arg |-> None, status |-> "none"]
  /\ pc = [t \in Threads |-> "idle"]
  /\ targ = [t \in Threads |-> None]
  /\ before = [t \in Threads |-> {}]
  /\ pre = [t \in Threads |-> [cur |-> None, reg |-> {}, host |-> {}]]
  /\ faults = 0
  /\ overlapped = FALSE
  /\ obs = [valid |-> FALSE, cur |-> None, reg |-> {}, host |-> {}]
  /\ pol = NoLookup
  /\ call = NoCall
  /\ ld = LoaderStart
  /\ cfg = ConfigStart
  /\ req = NoRequest
  /\ grp = NoGrouping
  /\ tx = NoBuild

Next ==
  \/ \E n \in ToolsetNames, rmFail \in FailSets(registered) :
       \E addFail \in FailSets(ToolsToAdd(n)) : EnableToolset(n, rmFail, addFail)
  \/ \E rmFail \in FailSets(registered) : DisableToolset(rmFail)
  \/ \E readRaises \in BOOLEAN : ListAvailableToolsets(readRaises)
  \/ \E n \in ToolsetNames : GetToolsetTools(n)
  \/ \E m \in MethodInputs \cup {None}, p \in PathInputs :
       CheckOperationConfirmation(m, p)

Spec == Init /\ [][Next]_vars

\* ------------------------------------------- calls on concurrent threads
\* enable_toolset and disable_toolset take no lock: a worker thread may be
\* preempted between any two accesses to _current_toolset,
\* _registered_tool_names and the host's tool table.
\* The toolsets the concurrent callers ask for.
ConcToolsets == {"self_service", "platform_admin", "reporting_insights"}

EnablePcs == {"e_disable", "e_clear", "e_before", "e_add", "e_track", "e_set"}
DisablePcs == {"d_disable", "d_clear", "d_set"}
RegisterPcs == {"e_before", "e_add", "e_track", "e_set"}

Running(t) == pc[t] # "idle"
OthersRunning(t) == \E u \in Threads \ {t} : Running(u)

\* Any step of a call ends what the reader saw of the state before it.
\* The call of thread t returns: its locals are gone.
NoSnapshot == [cur |-> None, reg |-> {}, host |-> {}]
Return(t) ==
  /\ pc' = [pc EXCEPT ![t] = "idle"]
  /\ targ' = [targ EXCEPT ![t] = None]
  /\ before' = [before EXCEPT ![t] = {}]
  /\ pre' = [pre EXCEPT ![t] = NoSnapshot]

NoObs == [valid |-> FALSE, cur |-> None, reg |-> {}, host |-> {}]
Forget == obs' = NoObs

\* enable_toolset up to "previous_toolset = _current_toolset" and the test
\* that follows it.
CEnableBegin(t, toolset_name) ==
  /\ pc[t] = "idle"
  /\ toolset_name \in GetAvailableToolsets
  /\ appReady
  /\ targ' = [targ EXCEPT ![t] = toolset_name]
  /\ overlapped' = (overlapped \/ OthersRunning(t))
  /\ pre' = [pre EXCEPT ![t] = IF overlapped' THEN NoSnapshot ELSE Snapshot]
  /\ pc' = [pc EXCEPT ![t] = IF current # None THEN "e_disable" ELSE "e_before"]
  /\ Forget
  /\ UNCHANGED <<regVars, seqVars, fnVars, extVars, before, faults>>

\* disable_toolset up to the call of _disable_current_toolset_internal.
CDisableBegin(t) ==
  /\ pc[t] = "idle"
  /\ current # None
  /\ overlapped' = (overlapped \/ OthersRunning(t))
  /\ pre' = [pre EXCEPT ![t] = IF overlapped' THEN NoSnapshot ELSE Snapshot]
  /\ pc' = [pc EXCEPT ![t] = "d_disable"]
  /\ Forget
  /\ UNCHANGED <<regVars, seqVars, fnVars, extVars, targ, before, faults>>

\* _disable_current_toolset_internal: the emptiness test and the removal
\* loop over the tracked names.
CDisableLoop(t, rmFail) ==
  /\ pc[t] \in {"e_disable", "d_disable"}
  /\ hostTools' = DisableCurrentToolsetInternal(registered, hostTools, rmFail).host
  /\ pc' = [pc EXCEPT ![t] =
              IF registered = {}
                THEN (IF pc[t] = "e_disable" THEN "e_before" ELSE "d_set")
                ELSE (IF pc[t] = "e_disable" THEN "e_clear" ELSE "d_clear")]
  /\ rmFail # {} => faults < MaxFaults
  /\ faults' = faults + Cardinality(rmFail)
  /\ Forget
  /\ UNCHANGED <<current, registered, appReady, inventory, seqVars, fnVars, extVars,
                 targ, before, pre, overlapped>>

\* _disable_current_toolset_internal: _registered_tool_names = []
CDisableClear(t) ==
  /\ pc[t] \in {"e_clear", "d_clear"}
  /\ registered' = {}
  /\ pc' = [pc EXCEPT ![t] = IF pc[t] = "e_clear" THEN "e_before" ELSE "d_set"]
  /\ Forget
  /\ UNCHANGED <<current, hostTools, appReady, inventory, seqVars, fnVars, extVars,
                 targ, before, pre, faults, overlapped>>

\* _register_toolset_tools: the inventory test and before_tools.
CRegisterBefore(t) ==
  /\ pc[t] = "e_before"
  /\ before' = [before EXCEPT ![t] = hostTools]
  /\ pc' = [pc EXCEPT ![t] = IF targ[t] \in inventory THEN "e_add" ELSE "e_set"]
  /\ Forget
  /\ UNCHANGED <<regVars, seqVars, fnVars, extVars, targ, pre, faults, overlapped>>

\* register_toolset_tools; a raised load ends the call with an error.
CRegisterAdd(t, addFail) ==
  /\ pc[t] = "e_add"
  /\ hostTools' = RegisterToolsetTools(hostTools, targ[t], addFail).host
  /\ IF RegisterToolsetTools(hostTools, targ[t], addFail).raised
       THEN Return(t)
       ELSE /\ pc' = [pc EXCEPT ![t] = "e_track"]
            /\ UNCHANGED <<targ, before, pre>>
  /\ addFail # {} => faults < MaxFaults
  /\ faults' = IF RegisterToolsetTools(hostTools, targ[t], addFail).raised
                 THEN MaxFaults ELSE faults + Cardinality(addFail)
  /\ Forget
  /\ UNCHANGED <<current, registered, appReady, inventory, seqVars, fnVars, extVars, overlapped>>

\* _register_toolset_tools: after_tools, new_tools and the extend.
CRegisterTrack(t) ==
  /\ pc[t] = "e_track"
  /\ registered' = registered \cup NewTools(hostTools, before[t])
  /\ before' = [before EXCEPT ![t] = {}]
  /\ pc' = [pc EXCEPT ![t] = "e_set"]
  /\ Forget
  /\ UNCHANGED <<current, hostTools, appReady, inventory, seqVars, fnVars, extVars,
                 targ, pre, faults, overlapped>>

\* enable_toolset: _current_toolset = toolset_name, then the response.
CEnableSet(t) ==
  /\ pc[t] = "e_set"
  /\ current' = targ[t]
  /\ Return(t)
  /\ Forget
  /\ UNCHANGED <<registered, hostTools, appReady, inventory, seqVars, fnVars, extVars,
                 faults, overlapped>>

\* disable_toolset: _current_toolset = None, then the response.
CDisableSet(t) ==
  /\ pc[t] = "d_set"
  /\ current' = None
  /\ Return(t)
  /\ Forget
  /\ UNCHANGED <<registered, hostTools, appReady, inventory, seqVars, fnVars, extVars,
                 faults, overlapped>>

\* get_current_toolset, get_registered_tool_count and the host listing its
\* tools, taken together at one instant.
CRead ==
  /\ ~obs.valid
  /\ obs' = [valid |-> TRUE, cur |-> current, reg |-> registered, host |-> hostTools]
  /\ UNCHANGED <<regVars, seqVars, fnVars, extVars, pc, targ, before, pre, faults,
                 overlapped>>

NextConc ==
  \/ \E t \in Threads, n \in ConcToolsets : CEnableBegin(t, n)
  \/ \E t \in Threads : CDisableBegin(t)
  \/ \E t \in Threads, rmFail \in FailSets(registered) : CDisableLoop(t, rmFail)
  \/ \E t \in Threads : CDisableClear(t)
  \/ \E t \in Threads : CRegisterBefore(t)
  \/ \E t \in Threads : \E addFail \in FailSets(ToolsToAdd(targ[t])) :
       CRegisterAdd(t, addFail)
  \/ \E t \in Threads : CRegisterTrack(t)
  \/ \E t \in Threads : CEnableSet(t)
  \/ \E t \in Threads : CDisableSet(t)
  \/ CRead

SpecConc == Init /\ [][NextConc]_vars

\* ------------------------------------------------ the policy, called alone
\* _path_matches on the characters of its two arguments.  A string is the
\* sequence of its characters, "NL" standing for a newline.  PathMatches
\* above is this function on paths already cut into segments that hold
\* neither a newline nor a character the regex engine reads as an operator.
\* Longest request path tried.
MaxPathLen == 4

PathChars == {"/", "a", "b", "NL"}

PathStrings == UNION {[1..n -> PathChars] : n \in 0..MaxPathLen}

\* Rule patterns tried: /a/{x}, /{x}/a, /a, /a.b, /{x}, /a/b
PatternStrings ==
  { <<"/", "a", "/", "{", "x", "}">>, <<"/", "{", "x", "}", "/", "a">>,
    <<"/", "a">>, <<"/", "a", ".", "b">>, <<"/", "{", "x", "}">>,
    <<"/", "a", "/", "b">> }

\* Index of the first "}" at or after i, 0 when there is none.
RECURSIVE ClosingBrace(_, _)
ClosingBrace(pattern, i) ==
  IF i > Len(pattern) THEN 0
  ELSE IF pattern[i] = "}" THEN i
  ELSE ClosingBrace(pattern, i + 1)

\* re.sub(r'\{[^}]+\}', r'[^/]+', pattern): each "{...}" with something
\* between the braces becomes the class [^/]+ ; every other character stays
\* in the regex as it is, "." therefore as the regex dot.
RECURSIVE RegexFrom(_, _)
RegexFrom(pattern, i) ==
  IF i > Len(pattern) THEN <<>>
  ELSE IF pattern[i] = "{" /\ ClosingBrace(pattern, i + 1) > i + 1
    THEN <<[k |-> "cls", c |-> ""]>> \o RegexFrom(pattern, ClosingBrace(pattern, i + 1) + 1)
  ELSE IF pattern[i] = "."
    THEN <<[k |-> "dot", c |-> ""]>> \o RegexFrom(pattern, i + 1)
  ELSE <<[k |-> "lit", c |-> pattern[i]]>> \o RegexFrom(pattern, i + 1)

\* "$" of re.match: the end of the string, or just before a newline that
\* ends the string.
AtDollar(str, j) ==
  \/ j = Len(str) + 1
  \/ j = Len(str) /\ str[j] = "NL"

\* re.match(f"^{regex}$", path) from atom k of the regex and character j of
\* the path, with backtracking over the length taken by [^/]+.
RECURSIVE ReMatchFrom(_, _, _, _)
ReMatchFrom(regex, k, str, j) ==
  IF k > Len(regex) THEN AtDollar(str, j)
  ELSE IF regex[k].k = "lit"
    THEN j <= Len(str) /\ str[j] = regex[k].c /\ ReMatchFrom(regex, k + 1, str, j + 1)
  ELSE IF regex[k].k = "dot"
    THEN j <= Len(str) /\ str[j] # "NL" /\ ReMatchFrom(regex, k + 1, str, j + 1)
  ELSE \E n \in 1..(Len(str) - j + 1) :
         /\ \A i \in j..(j + n - 1) : str[i] # "/"
         /\ ReMatchFrom(regex, k + 1, str, j + n)

\* _path_matches(path, pattern) on strings.
PathMatchesStr(path, pattern) == ReMatchFrom(RegexFrom(pattern, 1), 1, path, 1)

\* The scan of the rules with the request method compared in upper case.
RECURSIVE ConfirmationFromAnyCase(_, _, _)
ConfirmationFromAnyCase(i, method, path) ==
  IF i > Len(ConfirmationRules) THEN NoConfirmation
  ELSE LET rule == ConfirmationRules[i] IN
    IF rule.method # "*" /\ rule.method # Upper(method)
      THEN ConfirmationFromAnyCase(i + 1, method, path)
    ELSE IF PathMatches(path, rule.path_pattern)
      THEN [level |-> rule.level[1], message |-> rule.message,
            conditional |-> Len(rule.level) > 1,
            threshold_days |-> IF Len(rule.level) > 1 THEN rule.level[2] ELSE -1]
    ELSE ConfirmationFromAnyCase(i + 1, method, path)

\* The scan of the rules with a later matching rule replacing an earlier one.
RECURSIVE ConfirmationFromLastWins(_, _, _)
ConfirmationFromLastWins(i, method, path) ==
  IF i > Len(ConfirmationRules) THEN NoConfirmation
  ELSE LET rule == ConfirmationRules[i]
           rest == ConfirmationFromLastWins(i + 1, method, path) IN
    IF rest.level # "none" THEN rest
    ELSE IF (rule.method = "*" \/ rule.method = method)
            /\ PathMatches(path, rule.path_pattern)
      THEN [level |-> rule.level[1], message |-> rule.message,
            conditional |-> Len(rule.level) > 1,
            threshold_days |-> IF Len(rule.level) > 1 THEN rule.level[2] ELSE -1]
    ELSE NoConfirmation

\* Mutant of CallGetConfirmationForOperation: the last matching rule decides.
CallGetConfirmationLastWins(method, path) ==
  /\ pol.op = "none"
  /\ pol' = [NoLookup EXCEPT !.op = "classify", !.method = method, !.path = path,
                             !.result = ConfirmationFromLastWins(1, method, path)]
  /\ UNCHANGED <<regVars, last, prev, concVars, extVars, call, ld>>

\* Mutant of CallGetConfirmationForOperation: methods compared in upper case.
CallGetConfirmationAnyCase(method, path) ==
  /\ pol.op = "none"
  /\ pol' = [NoLookup EXCEPT !.op = "classify", !.method = method, !.path = path,
                             !.result = ConfirmationFromAnyCase(1, method, path)]
  /\ UNCHANGED <<regVars, last, prev, concVars, extVars, call, ld>>

\* get_confirmation_for_operation called, once, with a method and a path.
CallGetConfirmationForOperation(method, path) ==
  /\ pol.op = "none"
  /\ pol' = [NoLookup EXCEPT !.op = "classify", !.method = method, !.path = path,
                             !.result = GetConfirmationForOperation(method, path)]
  /\ UNCHANGED <<regVars, last, prev, concVars, extVars, call, ld>>

\* _path_matches called, once, with a path and a rule's pattern.
CallPathMatches(path, pattern) ==
  /\ pol.op = "none"
  /\ pol' = [NoLookup EXCEPT !.op = "match", !.str = path, !.pat = pattern,
                             !.matched = PathMatchesStr(path, pattern)]
  /\ UNCHANGED <<regVars, last, prev, concVars, extVars, call, ld>>

\* Request paths given to get_confirmation_for_operation.
PolicyPaths ==
  PathInputs \cup { <<"vdbs">>, <<"snapshots", "snap-1", "delete">>,
                    <<"jobs", "job-1">>, <<"vdbs", "">> }

PolicyMethods == MethodInputs \cup {"POST", "*"}

NextPolicy ==
  \/ \E m \in PolicyMethods, p \in PolicyPaths : CallGetConfirmationForOperation(m, p)
  \/ \E p \in PathStrings, q \in PatternStrings : CallPathMatches(p, q)

SpecPolicy == Init /\ [][NextPolicy]_vars

\* ------------------------------------------------ unified tools, invoked
\* Keyword arguments a caller may pass to a unified tool: the path
\* parameters (named by their placeholder), the acknowledgment flag and one
\* query parameter.  "absent" marks a key that is not passed, None a key
\* passed as None.
PathParamKeys == ParamSegments
ArgKeys == PathParamKeys \cup {"confirmed", "limit"}

ArgValues(key) ==
  IF key = "confirmed" THEN {"absent", "True", "False"}
  ELSE IF key = "limit" THEN {"absent", "10"}
  ELSE {"absent", "id-1", None}

\* The placeholders of a path template, in order.
PathParams(path) == SelectSeq(path, LAMBDA seg : seg \in PathParamKeys)

\* _create_grouped_tool_function: the action registry, action name ->
\* method, path and the confirmation looked up for them; of two entries
\* with one action name the later replaces the earlier.
LastWith(apis, action) ==
  CHOOSE i \in DOMAIN apis :
    apis[i].action = action /\ \A j \in DOMAIN apis : apis[j].action = action => j <= i

ActionRegistry(apis) ==
  [a \in {apis[i].action : i \in DOMAIN apis} |->
     [method |-> apis[LastWith(apis, a)].method,
      path |-> apis[LastWith(apis, a)].path,
      confirmation |-> GetConfirmationForOperation(apis[LastWith(apis, a)].method,
                                                   apis[LastWith(apis, a)].path)]]

\* grouped_tool from "Build request" on: every placeholder whose name is
\* among the keyword arguments is replaced by str(value); what is left of
\* the keyword arguments, None values dropped, goes as query parameters.
SendGrouped(info, kwargs, popped) ==
  ToolResult("sent", {}, "none", "",
    [called |-> TRUE, method |-> info.method,
     path |-> [i \in DOMAIN info.path |->
                 IF info.path[i] \in PathParamKeys /\ kwargs[info.path[i]] # "absent"
                   THEN kwargs[info.path[i]] ELSE info.path[i]],
     params |-> {k \in ArgKeys \ (popped \cup Range(info.path)) :
                   kwargs[k] \notin {"absent", None}}])

\* Mutant of GroupedTool: an action that is not in the registry is sent to
\* the first path of the group.
GroupedToolUnrouted(registry, action, kwargs) ==
  IF action \notin DOMAIN registry
    THEN SendGrouped(registry[CHOOSE a \in DOMAIN registry : TRUE], kwargs, {})
  ELSE IF registry[action].confirmation.level # "none" /\ kwargs["confirmed"] # "True"
    THEN ToolResult("confirmation_required", {}, registry[action].confirmation.level,
                    "", NoTransport)
  ELSE SendGrouped(registry[action], kwargs,
                   IF registry[action].confirmation.level # "none"
                     THEN {"confirmed"} ELSE {})

\* grouped_tool(action, **kwargs) of a tool made by
\* _create_grouped_tool_function, the DCT client being set (it is set
\* before any such tool reaches the host).
GroupedTool(registry, action, kwargs) ==
  IF action \notin DOMAIN registry
    THEN ToolResult("unknown_action", DOMAIN registry, "none", "", NoTransport)
  ELSE IF registry[action].confirmation.level # "none" /\ kwargs["confirmed"] # "True"
    THEN ToolResult("confirmation_required", {}, registry[action].confirmation.level,
                    "", NoTransport)
  ELSE SendGrouped(registry[action], kwargs,
                   IF registry[action].confirmation.level # "none"
                     THEN {"confirmed"} ELSE {})

\* The pre-generated unified tools (tools/*_endpoints_tool.py), each written
\* out by _generate_unified_tool from its action_details: engine_tool.
PregeneratedTools ==
  [ engine_tool |->
      << [method |-> "POST", path |-> <<"management", "engines", "search">>,
          action |-> "search"],
         [method |-> "GET", path |-> <<"management", "engines", "{engineId}">>,
          action |-> "get"],
         [method |-> "DELETE", path |-> <<"management", "engines", "{engineId}">>,
          action |-> "unregister"] >> ]

\* The first path parameter of the action that is None (or not passed), ""
\* when there is none.
FirstMissing(params, kwargs) ==
  IF \E i \in DOMAIN params : kwargs[params[i]] \in {"absent", None}
    THEN params[CHOOSE i \in DOMAIN params :
                  /\ kwargs[params[i]] \in {"absent", None}
                  /\ \A j \in DOMAIN params :
                       kwargs[params[j]] \in {"absent", None} => i <= j]
    ELSE ""

\* The function _generate_unified_tool writes: an if / elif chain over the
\* actions; in the branch taken, each path parameter that is None gives a
\* "Missing required parameter" error, else the request is sent; the final
\* else answers "Unknown action" with the valid actions.
UnifiedTool(details, action, kwargs) ==
  IF \A i \in DOMAIN details : details[i].action # action
    THEN ToolResult("unknown_action", {details[i].action : i \in DOMAIN details},
                    "none", "", NoTransport)
  ELSE LET d == details[CHOOSE i \in DOMAIN details :
                          details[i].action = action
                          /\ \A j \in DOMAIN details : details[j].action = action => i <= j] IN
    IF FirstMissing(PathParams(d.path), kwargs) # ""
      THEN ToolResult("missing_parameter", {}, "none",
                      FirstMissing(PathParams(d.path), kwargs), NoTransport)
      ELSE ToolResult("sent", {}, "none", "",
             [called |-> TRUE, method |-> d.method,
              path |-> [i \in DOMAIN d.path |-> IF d.path[i] \in PathParamKeys
                                                 THEN kwargs[d.path[i]] ELSE d.path[i]],
              params |-> {k \in ArgKeys \ Range(d.path) :
                            kwargs[k] \notin {"absent", None}}])

\* The keyword arguments tried.
KwargsInputs == {kw \in [ArgKeys -> {"absent", "id-1", None, "True", "False", "10"}] :
                   \A k \in ArgKeys : kw[k] \in ArgValues(k)}

ActionInputs(apis) == {apis[i].action : i \in DOMAIN apis} \cup {"bogus"}

\* Method, path and tier of the catalog entry an action name stands for.
EntryOf(apis, action) ==
  IF \E i \in DOMAIN apis : apis[i].action = action
    THEN [method |-> apis[LastWith(apis, action)].method,
          path |-> apis[LastWith(apis, action)].path,
          tier |-> GetConfirmationForOperation(apis[LastWith(apis, action)].method,
                                               apis[LastWith(apis, action)].path).level]
    ELSE [method |-> "", path |-> <<>>, tier |-> "none"]

\* A dynamically generated tool of an enabled toolset is invoked, once.
InvokeGroupedTool(toolset_name, tool_name, action, kwargs) ==
  /\ call.kind = "none"
  /\ call' = [kind |-> "dynamic", tool |-> tool_name, action |-> action,
              kwargs |-> kwargs,
              tier |-> EntryOf(Catalog[toolset_name].apis[tool_name], action).tier,
              method |-> EntryOf(Catalog[toolset_name].apis[tool_name], action).method,
              path |-> EntryOf(Catalog[toolset_name].apis[tool_name], action).path,
              members |-> ActionInputs(Catalog[toolset_name].apis[tool_name]) \ {"bogus"},
              result |-> GroupedTool(ActionRegistry(Catalog[toolset_name].apis[tool_name]),
                                     action, kwargs)]
  /\ UNCHANGED <<regVars, last, prev, concVars, extVars, pol, ld>>

\* A pre-generated tool (fixed-toolset mode) is invoked, once; its
\* signature has no acknowledgment parameter.
InvokePregeneratedTool(tool_name, action, kwargs) ==
  /\ call.kind = "none"
  /\ kwargs["confirmed"] = "absent"
  /\ call' = [kind |-> "pregenerated", tool |-> tool_name, action |-> action,
              kwargs |-> kwargs,
              tier |-> EntryOf(PregeneratedTools[tool_name], action).tier,
              method |-> EntryOf(PregeneratedTools[tool_name], action).method,
              path |-> EntryOf(PregeneratedTools[tool_name], action).path,
              members |-> ActionInputs(PregeneratedTools[tool_name]) \ {"bogus"},
              result |-> UnifiedTool(PregeneratedTools[tool_name], action, kwargs)]
  /\ UNCHANGED <<regVars, last, prev, concVars, extVars, pol, ld>>

NextInvoke ==
  \/ \E n \in {x \in GetAvailableToolsets : Generated[x].ok} :
       \E t \in Range(Generated[n].tools) :
         \E a \in ActionInputs(Catalog[n].apis[t]), kw \in KwargsInputs :
           InvokeGroupedTool(n, t, a, kw)
  \/ \E t \in DOMAIN PregeneratedTools :
       \E a \in ActionInputs(PregeneratedTools[t]), kw \in KwargsInputs :
         InvokePregeneratedTool(t, a, kw)

SpecInvoke == Init /\ [][NextInvoke]_vars

\* ------------------------------------------- the loader and its cache
\* load_toolset_grouped_apis is wrapped in lru_cache(maxsize=10): a result
\* is stored under the toolset's name when the call returns, a call that
\* raises stores nothing, and the @inherit branch calls the wrapped
\* function, so a parent's result is stored as well.  Fewer than ten names
\* exist here, so nothing is evicted.
\* What a successful load returns: the groups in order, their entries and
\* their descriptions.
Loaded(st) == [order |-> st.order, apis |-> st.apis, desc |-> st.desc]

RECURSIVE CachedLoad(_, _, _, _)
RECURSIVE ParseCached(_, _, _, _, _, _)

\* The @inherit branch once the parent's load p has returned or raised.
AfterParent(files, lines, i, st, depth, p) ==
  IF ~p.ok THEN [st |-> LoadFailed, cache |-> p.cache]
  ELSE ParseCached(files, p.cache, lines, i + 1, MergeParent(st, p.val), depth)

\* The loop over the lines of the file, the cache passed along.
ParseCached(files, cache, lines, i, st, depth) ==
  IF i > Len(lines) THEN [st |-> st, cache |-> cache]
  ELSE IF lines[i].k = "tool"
    THEN ParseCached(files, cache, lines, i + 1, OnToolHeader(st, lines[i]), depth)
  ELSE IF lines[i].k = "comment"
    THEN ParseCached(files, cache, lines, i + 1, st, depth)
  ELSE IF lines[i].k = "inherit"
    THEN IF lines[i].name \notin files
           THEN [st |-> LoadFailed, cache |-> cache]
           ELSE AfterParent(files, lines, i, st, depth,
                            CachedLoad(files, cache, lines[i].name, depth + 1))
  ELSE ParseCached(files, cache, lines, i + 1, OnApiLine(st, lines[i]), depth)

\* A wrapper that stores also what was parsed before a failure.
StoreResultAlways(toolset_name, r) ==
  [ok |-> r.st.ok, val |-> IF r.st.ok THEN Loaded(r.st) ELSE <<>>,
   cache |-> (toolset_name :> Loaded(r.st)) @@ r.cache]

\* The wrapper's part once the body r has run: store on return only.
StoreResult(toolset_name, r) ==
  IF r.st.ok
    THEN [ok |-> TRUE, val |-> Loaded(r.st),
          cache |-> (toolset_name :> Loaded(r.st)) @@ r.cache]
    ELSE [ok |-> FALSE, val |-> <<>>, cache |-> r.cache]

\* load_toolset_grouped_apis(toolset_name) through its cache.
CachedLoad(files, cache, toolset_name, depth) ==
  IF toolset_name \in DOMAIN cache
    THEN [ok |-> TRUE, val |-> cache[toolset_name], cache |-> cache]
  ELSE IF toolset_name \notin files \/ depth > MaxInheritDepth
    THEN [ok |-> FALSE, val |-> <<>>, cache |-> cache]
  ELSE StoreResult(toolset_name,
                   ParseCached(files, cache, DirectoryFiles[toolset_name], 1,
                               EmptyGrouped, depth))

\* A call's outcome r written to the loader's state.
Record(toolset_name, r) ==
  ld' = [ld EXCEPT
           !.op = "load", !.name = toolset_name, !.ok = r.ok, !.result = r.val,
           !.before = ld.cache, !.cache = r.cache,
           !.returned = IF r.ok THEN (toolset_name :> r.val) @@ ld.returned
                        ELSE ld.returned,
           !.same = /\ ld.same
                    /\ (r.ok /\ toolset_name \in DOMAIN ld.returned)
                         => r.val = ld.returned[toolset_name],
           !.failed = IF r.ok THEN ld.failed ELSE ld.failed \cup {toolset_name}]

\* Mutant of LoadToolset: the parent's groups are left out of the child's.
LoadToolsetOwnOnly(toolset_name) ==
  /\ Record(toolset_name,
            IF toolset_name \in ld.files
                 /\ \A i \in DOMAIN DirectoryFiles[toolset_name] :
                      DirectoryFiles[toolset_name][i].k = "inherit"
                        => DirectoryFiles[toolset_name][i].name \in ld.files
              THEN [ok |-> TRUE,
                    val |-> Loaded(ParseCached(ld.files, ld.cache,
                              SelectSeq(DirectoryFiles[toolset_name],
                                        LAMBDA ln : ln.k # "inherit"),
                              1, EmptyGrouped, 0).st),
                    cache |-> ld.cache]
              ELSE [ok |-> FALSE, val |-> <<>>, cache |-> ld.cache])
  /\ UNCHANGED <<regVars, last, prev, concVars, extVars, pol, call>>

\* load_toolset_grouped_apis(toolset_name) called by the server.
LoadToolset(toolset_name) ==
  /\ Record(toolset_name, CachedLoad(ld.files, ld.cache, toolset_name, 0))
  /\ UNCHANGED <<regVars, last, prev, concVars, extVars, pol, call>>

\* A toolset file is put into the directory while the server runs.
AddToolsetFile(toolset_name) ==
  /\ toolset_name \in DOMAIN DirectoryFiles \ ld.files
  /\ ld' = [ld EXCEPT !.files = @ \cup {toolset_name}, !.op = "add",
                      !.name = toolset_name, !.ok = TRUE, !.result = <<>>,
                      !.before = ld.cache]
  /\ UNCHANGED <<regVars, last, prev, concVars, extVars, pol, call>>

NextLoad ==
  \/ \E n \in DOMAIN DirectoryFiles \cup {"no_such_toolset"} : LoadToolset(n)
  \/ \E n \in DOMAIN DirectoryFiles : AddToolsetFile(n)

SpecLoad == Init /\ [][NextLoad]_vars

\* ------------------------------------ configuration files that change
\* The four cached loaders over files that are edited while the server
\* runs, and clear_cache.  A load ends in one of three ways: "ok", the
\* ValueError the loader raises itself, or the RecursionError of the
\* interpreter when the nesting of calls passes its limit, for which
\* MaxInheritDepth stands.
MaxEdits == 1

\* An edit of a toolset file: one more entry at its end.
Revised(lines) == Append(lines, Api("GET", <<"bookmarks">>, "list_bookmarks"))

RECURSIVE CachedGrouped(_, _, _, _)
RECURSIVE ReadGrouped(_, _, _, _, _, _)

\* The @inherit branch of load_toolset_grouped_apis after the parent's load p.
GroupedAfterParent(dir, lines, i, st, depth, p) ==
  IF p.kind # "ok" THEN [kind |-> p.kind, st |-> st, cache |-> p.cache]
  ELSE ReadGrouped(dir, p.cache, lines, i + 1, MergeParent(st, p.val), depth)

\* load_toolset_grouped_apis: the loop over the lines of the file.
ReadGrouped(dir, cache, lines, i, st, depth) ==
  IF i > Len(lines) THEN [kind |-> "ok", st |-> st, cache |-> cache]
  ELSE IF lines[i].k = "tool"
    THEN ReadGrouped(dir, cache, lines, i + 1, OnToolHeader(st, lines[i]), depth)
  ELSE IF lines[i].k = "comment"
    THEN ReadGrouped(dir, cache, lines, i + 1, st, depth)
  ELSE IF lines[i].k = "inherit"
    THEN IF lines[i].name \notin DOMAIN dir
           THEN [kind |-> "ValueError", st |-> st, cache |-> cache]
           ELSE GroupedAfterParent(dir, lines, i, st, depth,
                                   CachedGrouped(dir, cache, lines[i].name, depth + 1))
  ELSE ReadGrouped(dir, cache, lines, i + 1, OnApiLine(st, lines[i]), depth)

\* lru_cache around the grouped loader: the result is stored on return.
StoreGrouped(toolset_name, r) ==
  IF r.kind = "ok"
    THEN [kind |-> "ok", val |-> Loaded(r.st),
          cache |-> (toolset_name :> Loaded(r.st)) @@ r.cache]
    ELSE [kind |-> r.kind, val |-> << >>, cache |-> r.cache]

\* load_toolset_grouped_apis(toolset_name) over the directory dir.
CachedGrouped(dir, cache, toolset_name, depth) ==
  IF toolset_name \in DOMAIN cache
    THEN [kind |-> "ok", val |-> cache[toolset_name], cache |-> cache]
  ELSE IF depth > MaxInheritDepth
    THEN [kind |-> "RecursionError", val |-> << >>, cache |-> cache]
  ELSE IF toolset_name \notin DOMAIN dir
    THEN [kind |-> "ValueError", val |-> << >>, cache |-> cache]
  ELSE StoreGrouped(toolset_name,
                    ReadGrouped(dir, cache, dir[toolset_name], 1, EmptyGrouped, depth))

RECURSIVE CachedFlat(_, _, _, _)
RECURSIVE ReadFlat(_, _, _, _, _, _)

\* The @inherit branch of load_toolset_apis after the parent's load p.
FlatAfterParent(dir, lines, i, apis, depth, p) ==
  IF p.kind # "ok" THEN [kind |-> p.kind, apis |-> apis, cache |-> p.cache]
  ELSE ReadFlat(dir, p.cache, lines, i + 1, apis \o p.val, depth)

\* load_toolset_apis: the loop over the lines of the file; a "# TOOL"
\* header is a comment to it.
ReadFlat(dir, cache, lines, i, apis, depth) ==
  IF i > Len(lines) THEN [kind |-> "ok", apis |-> apis, cache |-> cache]
  ELSE IF lines[i].k \in {"tool", "comment"}
    THEN ReadFlat(dir, cache, lines, i + 1, apis, depth)
  ELSE IF lines[i].k = "inherit"
    THEN IF lines[i].name \notin DOMAIN dir
           THEN [kind |-> "ValueError", apis |-> apis, cache |-> cache]
           ELSE FlatAfterParent(dir, lines, i, apis, depth,
                                CachedFlat(dir, cache, lines[i].name, depth + 1))
  ELSE ReadFlat(dir, cache, lines, i + 1,
                Append(apis, [method |-> lines[i].method, path |-> lines[i].path,
                              action |-> lines[i].action]),
                depth)

\* lru_cache around the flat loader.
StoreFlat(toolset_name, r) ==
  IF r.kind = "ok"
    THEN [kind |-> "ok", val |-> r.apis, cache |-> (toolset_name :> r.apis) @@ r.cache]
    ELSE [kind |-> r.kind, val |-> << >>, cache |-> r.cache]

\* load_toolset_apis(toolset_name) over the directory dir.
CachedFlat(dir, cache, toolset_name, depth) ==
  IF toolset_name \in DOMAIN cache
    THEN [kind |-> "ok", val |-> cache[toolset_name], cache |-> cache]
  ELSE IF depth > MaxInheritDepth
    THEN [kind |-> "RecursionError", val |-> << >>, cache |-> cache]
  ELSE IF toolset_name \notin DOMAIN dir
    THEN [kind |-> "ValueError", val |-> << >>, cache |-> cache]
  ELSE StoreFlat(toolset_name, ReadFlat(dir, cache, dir[toolset_name], 1, << >>, depth))

\* load_tool_grouping: one dict entry per tool name, in the order the names
\* first appear; a name that appears again replaces the entry's patterns.
RECURSIVE GroupingFrom(_, _, _)
GroupingFrom(source, i, grouping) ==
  IF i > Len(source) THEN grouping
  ELSE IF \E j \in DOMAIN grouping : grouping[j].tool_name = source[i].tool_name
    THEN GroupingFrom(source, i + 1,
           [j \in DOMAIN grouping |->
              IF grouping[j].tool_name = source[i].tool_name THEN source[i]
              ELSE grouping[j]])
  ELSE GroupingFrom(source, i + 1, Append(grouping, source[i]))

LoadToolGrouping(source) == GroupingFrom(source, 1, << >>)

\* load_manual_confirmation_rules: the rule lines of the file, in order.
LoadManualConfirmationRules(source) ==
  SelectSeq(source, LAMBDA rule : rule.method # "" /\ rule.level # << >>)

\* The latest call written to the configuration's state.
Loading(op, toolset_name, kind, result) ==
  [cfg EXCEPT !.op = op, !.name = toolset_name, !.kind = kind, !.result = result]

\* load_toolset_apis(toolset_name)
CallLoadToolsetApis(toolset_name) ==
  /\ LET r == CachedFlat(cfg.dir, cfg.flat, toolset_name, 0) IN
       cfg' = [Loading("load_toolset_apis", toolset_name, r.kind, r.val)
                 EXCEPT !.flat = r.cache]
  /\ UNCHANGED <<regVars, seqVars, concVars, fnVars, req, grp, tx>>

\* load_toolset_grouped_apis(toolset_name), as generate_tools_for_toolset
\* (enable_toolset) and get_tools_for_toolset (get_toolset_tools) call it.
CallLoadToolsetGroupedApis(toolset_name) ==
  /\ LET r == CachedGrouped(cfg.dir, cfg.grouped, toolset_name, 0) IN
       cfg' = [Loading("load_toolset_grouped_apis", toolset_name, r.kind, r.val)
                 EXCEPT !.grouped = r.cache]
  /\ UNCHANGED <<regVars, seqVars, concVars, fnVars, req, grp, tx>>

\* load_tool_grouping()
CallLoadToolGrouping ==
  /\ LET g == IF cfg.grouping = << >> THEN LoadToolGrouping(cfg.mapping)
              ELSE cfg.grouping[1] IN
       cfg' = [Loading("load_tool_grouping", "", "ok", g) EXCEPT !.grouping = <<g>>]
  /\ UNCHANGED <<regVars, seqVars, concVars, fnVars, req, grp, tx>>

\* load_manual_confirmation_rules()
CallLoadManualConfirmationRules ==
  /\ LET c == IF cfg.confirmation = << >>
                THEN LoadManualConfirmationRules(cfg.rules)
              ELSE cfg.confirmation[1] IN
       cfg' = [Loading("load_manual_confirmation_rules", "", "ok", c)
                 EXCEPT !.confirmation = <<c>>]
  /\ UNCHANGED <<regVars, seqVars, concVars, fnVars, req, grp, tx>>

\* clear_cache()
ClearCache ==
  /\ cfg' = [Loading("clear_cache", "", "ok", << >>)
               EXCEPT !.flat = << >>, !.grouping = << >>, !.confirmation = << >>,
                      !.clean = TRUE]
  /\ UNCHANGED <<regVars, seqVars, concVars, fnVars, req, grp, tx>>

\* A toolset file is edited on disk.
EditToolsetFile(toolset_name) ==
  /\ cfg.edits < MaxEdits
  /\ toolset_name \in DOMAIN cfg.dir
  /\ cfg' = [Loading("edit", toolset_name, "ok", << >>)
               EXCEPT !.dir[toolset_name] = Revised(@), !.edits = @ + 1,
                      !.clean = FALSE]
  /\ UNCHANGED <<regVars, seqVars, concVars, fnVars, req, grp, tx>>

\* tool_grouping.txt is replaced on disk.
EditGroupingFile(source) ==
  /\ cfg.edits < MaxEdits
  /\ source # cfg.mapping
  /\ cfg' = [Loading("edit", "tool_grouping", "ok", << >>)
               EXCEPT !.mapping = source, !.edits = @ + 1, !.clean = FALSE]
  /\ UNCHANGED <<regVars, seqVars, concVars, fnVars, req, grp, tx>>

\* manual_confirmation.txt is replaced on disk.
EditRulesFile(source) ==
  /\ cfg.edits < MaxEdits
  /\ source # cfg.rules
  /\ cfg' = [Loading("edit", "manual_confirmation", "ok", << >>)
               EXCEPT !.rules = source, !.edits = @ + 1, !.clean = FALSE]
  /\ UNCHANGED <<regVars, seqVars, concVars, fnVars, req, grp, tx>>

ConfigToolsets == DOMAIN ConfigDirectory \cup {"no_such_toolset"}

NextConfig ==
  \/ \E n \in ConfigToolsets : CallLoadToolsetApis(n)
  \/ \E n \in ConfigToolsets : CallLoadToolsetGroupedApis(n)
  \/ CallLoadToolGrouping
  \/ CallLoadManualConfirmationRules
  \/ ClearCache
  \/ \E n \in ConfigToolsets : EditToolsetFile(n)
  \/ \E m \in GroupingSources : EditGroupingFile(m)
  \/ \E r \in RuleSources : EditRulesFile(r)

SpecConfig == Init /\ [][NextConfig]_vars

\* ------------------------------------------------ the transport's retries
\* DCTAPIClient.make_request: "for attempt in range(self.max_retries)", one
\* step per await.  An attempt ends with a response that passes
\* raise_for_status and is decoded ("ok"), with httpx.HTTPStatusError, or
\* with any other Exception (connection failure, timeout, a body that does
\* not decode).
MaxRetries == 4

AttemptOutcomes == {"ok", "HTTPStatusError", "Exception"}

\* What the except branches raise on the last attempt.
Raised(outcome) ==
  IF outcome = "HTTPStatusError" THEN "raised Exception(error_msg)" ELSE "raised e"

\* make_request is called on a client whose max_retries is given.
StartRequest(max_retries) ==
  /\ req.pc = "idle"
  /\ req' = IF max_retries > 0
              THEN [req EXCEPT !.pc = "attempting", !.max_retries = max_retries]
              ELSE [req EXCEPT !.pc = "done", !.max_retries = max_retries,
                               !.result = "raised All retry attempts failed"]
  /\ UNCHANGED <<regVars, seqVars, concVars, fnVars, cfg, grp, tx>>

\* An attempt whose failure is followed by a wait whatever its number.
AttemptAlwaysWaits(outcome) ==
  /\ req.pc = "attempting"
  /\ req' = [req EXCEPT
               !.outcomes = Append(@, outcome),
               !.pc = IF outcome = "ok" THEN "done" ELSE "sleeping",
               !.result = IF outcome = "ok" THEN "returned" ELSE @]
  /\ UNCHANGED <<regVars, seqVars, concVars, fnVars, cfg, grp, tx>>

\* One pass of the loop body up to its return, raise or sleep.
Attempt(outcome) ==
  /\ req.pc = "attempting"
  /\ req' = [req EXCEPT
               !.outcomes = Append(@, outcome),
               !.pc = IF outcome = "ok" \/ req.attempt = req.max_retries - 1
                        THEN "done" ELSE "sleeping",
               !.result = IF outcome = "ok" THEN "returned"
                          ELSE IF req.attempt = req.max_retries - 1
                            THEN Raised(outcome)
                          ELSE @]
  /\ UNCHANGED <<regVars, seqVars, concVars, fnVars, cfg, grp, tx>>

\* await asyncio.sleep(2**attempt) returns; the loop takes the next value
\* of range(max_retries), or ends and the statement after it raises.
Sleep ==
  /\ req.pc = "sleeping"
  /\ req' = [req EXCEPT
               !.slept = Append(@, 2 ^ req.attempt),
               !.attempt = @ + 1,
               !.pc = IF req.attempt + 1 < req.max_retries THEN "attempting"
                      ELSE "done",
               !.result = IF req.attempt + 1 < req.max_retries THEN @
                          ELSE "raised All retry attempts failed"]
  /\ UNCHANGED <<regVars, seqVars, concVars, fnVars, cfg, grp, tx>>

NextRequest ==
  \/ \E n \in 0..MaxRetries : StartRequest(n)
  \/ \E o \in AttemptOutcomes : Attempt(o)
  \/ Sleep

\* The request of an attempt ends (httpx is given a timeout) and the sleep
\* is finite: a step that is enabled is taken.
SpecRequest ==
  /\ Init
  /\ [][NextRequest]_vars
  /\ WF_vars(\E o \in AttemptOutcomes : Attempt(o))
  /\ WF_vars(Sleep)

\* ------------------------------------------------- the grouping resolver
\* get_tool_for_api over strings of characters.
ApiPathChars == {"/", "a", "b", "{"}

ApiPaths == UNION {[1..n -> ApiPathChars] : n \in 0..MaxPathLen}

\* api_path.split('{')[0]
BeforeBrace(str) ==
  IF \E i \in DOMAIN str : str[i] = "{"
    THEN SubSeq(str, 1, (CHOOSE i \in DOMAIN str :
                           str[i] = "{" /\ \A j \in 1..(i - 1) : str[j] # "{") - 1)
    ELSE str

\* str.rstrip('/')
RECURSIVE RStrip(_)
RStrip(str) ==
  IF str # << >> /\ str[Len(str)] = "/" THEN RStrip(SubSeq(str, 1, Len(str) - 1))
  ELSE str

\* str.startswith(prefix)
StartsWith(str, prefix) ==
  Len(prefix) <= Len(str) /\ SubSeq(str, 1, Len(prefix)) = prefix

\* The loops of a get_tool_for_api that compares with the pattern as written.
RECURSIVE ToolFromRaw(_, _, _, _)
ToolFromRaw(grouping, j, k, api_path) ==
  IF j > Len(grouping) THEN "unknown_tool"
  ELSE IF k > Len(grouping[j].patterns) THEN ToolFromRaw(grouping, j + 1, 1, api_path)
  ELSE IF StartsWith(RStrip(BeforeBrace(api_path)), grouping[j].patterns[k])
    THEN grouping[j].tool_name
  ELSE ToolFromRaw(grouping, j, k + 1, api_path)

\* The two loops: entry j of the grouping, pattern k of the entry.
RECURSIVE ToolFrom(_, _, _, _)
ToolFrom(grouping, j, k, api_path) ==
  IF j > Len(grouping) THEN "unknown_tool"
  ELSE IF k > Len(grouping[j].patterns) THEN ToolFrom(grouping, j + 1, 1, api_path)
  ELSE IF StartsWith(RStrip(BeforeBrace(api_path)), RStrip(grouping[j].patterns[k]))
    THEN grouping[j].tool_name
  ELSE ToolFrom(grouping, j, k + 1, api_path)

\* get_tool_for_api with every pattern compared as written.
GetToolForApiRawPattern(grouping, api_path) == ToolFromRaw(grouping, 1, 1, api_path)

\* get_tool_for_api(api_path), grouping being what load_tool_grouping returns.
GetToolForApi(grouping, api_path) == ToolFrom(grouping, 1, 1, api_path)

\* get_tool_for_api called with tool_grouping.txt holding source.
CallGetToolForApi(source, api_path) ==
  /\ grp.op = "none"
  /\ grp' = [op |-> "get_tool_for_api", source |-> source, path |-> api_path,
             result |-> GetToolForApi(LoadToolGrouping(source), api_path)]
  /\ UNCHANGED <<regVars, seqVars, concVars, fnVars, cfg, req, tx>>

NextGrouping ==
  \E source \in GroupingSources, api_path \in ApiPaths :
    CallGetToolForApi(source, api_path)

SpecGrouping == Init /\ [][NextGrouping]_vars

\* ---------------------------------------- requests the unified tools build
\* The interface description (OpenAPI) as the generator and the factory
\* read it: for a path and a lower-case method, the operation's parameters
\* (name, where it goes), the properties of its JSON request body, those of
\* them the schema requires, and whether it is x-filterable.
ParamDef(name, in) == [name |-> name, in |-> in]

OpenApiOperation(parameters, properties, required, filterable) ==
  [parameters |-> parameters, properties |-> properties, required |-> required,
   filterable |-> filterable]

ApiSpec ==
  (<< <<"environments", "search">>, "post" >> :>
     OpenApiOperation(<<ParamDef("limit", "query")>>, << >>, {}, TRUE))
  @@ (<< <<"environments", "{environmentId}">>, "get" >> :>
     OpenApiOperation(<<ParamDef("environmentId", "path")>>, << >>, {}, FALSE))
  @@ (<< <<"environments">>, "post" >> :>
     OpenApiOperation(<< >>, <<"engine_id", "hostname", "description">>,
                      {"engine_id", "hostname"}, FALSE))
  @@ (<< <<"environments", "{environmentId}">>, "patch" >> :>
     OpenApiOperation(<<ParamDef("environmentId", "path")>>, <<"description">>,
                      {}, FALSE))
  @@ (<< <<"accounts", "{id}">>, "get" >> :>
     OpenApiOperation(<<ParamDef("id", "path")>>, << >>, {}, FALSE))

\* The catalog entries of one group; the last has no operation in ApiSpec.
EnvironmentApis ==
  << [method |-> "POST", path |-> <<"environments", "search">>, action |-> "search"],
     [method |-> "GET", path |-> <<"environments", "{environmentId}">>, action |-> "get"],
     [method |-> "POST", path |-> <<"environments">>, action |-> "create"],
     [method |-> "PATCH", path |-> <<"environments", "{environmentId}">>,
      action |-> "update"],
     [method |-> "GET", path |-> <<"accounts", "{id}">>, action |-> "get_account"],
     [method |-> "POST", path |-> <<"environments", "{environmentId}", "refresh">>,
      action |-> "refresh"] >>

\* str.lower on the methods of the catalog.
Lower(m) ==
  CASE m = "GET" -> "get" [] m = "POST" -> "post" [] m = "PATCH" -> "patch"
    [] m = "DELETE" -> "delete" [] OTHER -> m

\* re.findall(r'\{(\w+)\}', path): the names in the placeholders of a path.
PlaceholderName(seg) ==
  CASE seg = "{environmentId}" -> "environmentId" [] seg = "{id}" -> "id"
    [] seg = "{vdbId}" -> "vdbId" [] seg = "{jobId}" -> "jobId"
    [] seg = "{engineId}" -> "engineId" [] seg = "{snapshotId}" -> "snapshotId"
    [] OTHER -> ""

PathParamNames(path) ==
  {PlaceholderName(path[i]) : i \in DOMAIN path} \ {""}

\* re.sub(r'(?<!^)(?=[A-Z])', '_', p).lower()
Snake(p) ==
  CASE p = "environmentId" -> "environment_id" [] p = "vdbId" -> "vdb_id"
    [] p = "jobId" -> "job_id" [] p = "engineId" -> "engine_id"
    [] p = "snapshotId" -> "snapshot_id" [] OTHER -> p

\* p.endswith("_id") on the names in use.
EndsWithId(p) ==
  p \in {"environment_id", "vdb_id", "job_id", "engine_id", "snapshot_id"}

BodyMethods == {"POST", "PUT", "PATCH"}

\* path_item.get(method.lower()): whether the interface description has
\* the operation of a catalog entry.
HasOperation(spec, api) == <<api.path, Lower(api.method)>> \in DOMAIN spec

OperationOf(spec, api) == spec[<<api.path, Lower(api.method)>>]

\* The entries _generate_unified_tool keeps: those with an operation.
Kept(apis, spec) == SelectSeq(apis, LAMBDA api : HasOperation(spec, api))

\* all_params[name]["required_for"] after the loop over the entries: the
\* actions with name as a path parameter (snake case), as a parameter that
\* is not in the path, or as a required property of the request body.
RequiredFor(apis, spec, name) ==
  {apis[i].action : i \in
     {i \in DOMAIN apis :
        /\ HasOperation(spec, apis[i])
        /\ \/ name \in {Snake(p) : p \in PathParamNames(apis[i].path)}
           \/ \E k \in DOMAIN OperationOf(spec, apis[i]).parameters :
                /\ OperationOf(spec, apis[i]).parameters[k].in # "path"
                /\ OperationOf(spec, apis[i]).parameters[k].name = name
           \/ /\ Upper(apis[i].method) \in BodyMethods
              /\ name \in Range(OperationOf(spec, apis[i]).properties)
              /\ name \in OperationOf(spec, apis[i]).required}}

\* The keys of all_params: the signature of the generated function.
AllParams(apis, spec) ==
  UNION {{Snake(p) : p \in PathParamNames(apis[i].path)}
           \cup {OperationOf(spec, apis[i]).parameters[k].name :
                   k \in {k \in DOMAIN OperationOf(spec, apis[i]).parameters :
                            OperationOf(spec, apis[i]).parameters[k].in # "path"}}
           \cup (IF Upper(apis[i].method) \in BodyMethods
                   THEN Range(OperationOf(spec, apis[i]).properties) ELSE {})
           \cup (IF OperationOf(spec, apis[i]).filterable
                   THEN {"filter_expression"} ELSE {})
         : i \in {i \in DOMAIN apis : HasOperation(spec, apis[i])}}

\* What a unified tool built, or why it built nothing.
Built(kind, action, args, status, api, inPath, query, body, required, fields) ==
  [kind |-> kind, action |-> action, args |-> args, status |-> status,
   method |-> api.method, path |-> api.path, inPath |-> inPath, query |-> query,
   body |-> body, required |-> required, fields |-> fields]

NoApi == [method |-> "", path |-> << >>, action |-> ""]

\* The properties the schema gives the request body of an entry.
BodyFields(spec, api) ==
  IF HasOperation(spec, api) /\ Upper(api.method) \in BodyMethods
    THEN Range(OperationOf(spec, api).properties) ELSE {}

\* The branch of the generated function for the entry api: the
\* "is None" tests of the path parameters, build_params over query_params,
\* the body of a filterable POST or of body_params.
GeneratedBranch(apis, spec, api, args) ==
  IF \E p \in PathParamNames(api.path) : args[Snake(p)] = None
    THEN Built("generated", api.action, args, "missing_parameter", api, {}, {}, {},
               {n \in AllParams(apis, spec) : api.action \in RequiredFor(apis, spec, n)},
               BodyFields(spec, api))
    ELSE Built("generated", api.action, args, "sent", api,
               {Snake(p) : p \in PathParamNames(api.path)},
               {n \in AllParams(apis, spec) :
                  /\ api.action \in RequiredFor(apis, spec, n)
                  /\ ~EndsWithId(n)
                  /\ n # "filter_expression"
                  /\ args[n] # None},
               IF OperationOf(spec, api).filterable /\ api.method = "POST"
                 THEN {n \in {"filter_expression"} : args[n] # None}
               ELSE IF api.method \in BodyMethods
                 THEN {n \in AllParams(apis, spec) :
                         /\ api.action \in RequiredFor(apis, spec, n)
                         /\ ~EndsWithId(n)
                         /\ args[n] # None}
               ELSE {},
               {n \in AllParams(apis, spec) : api.action \in RequiredFor(apis, spec, n)},
               BodyFields(spec, api))

\* The function _generate_unified_tool writes for the entries apis, called
\* with action and the values args of its parameters (None by default).
GeneratedTool(apis, spec, action, args) ==
  IF \A i \in DOMAIN Kept(apis, spec) : Kept(apis, spec)[i].action # action
    THEN Built("generated", action, args, "unknown_action", NoApi, {}, {}, {}, {}, {})
    ELSE GeneratedBranch(apis, spec,
                         Kept(apis, spec)[LastWith(Kept(apis, spec), action)], args)

\* "search" in action.lower(), on the action names in use.
IsSearchAction(action) == action = "search"

\* grouped_tool from "Build request" on, the confirmation gate passed:
\* the placeholders found among the keyword arguments are replaced,
\* filter_expression and body are popped, the rest that is not None goes
\* as query parameters.  "absent" marks a keyword that is not passed.
GroupedRequest(spec, api, action, kwargs) ==
  Built("dynamic", action, kwargs, "sent", api,
        {p \in PathParamNames(api.path) : kwargs[p] # "absent"},
        {k \in DOMAIN kwargs \ (PathParamNames(api.path) \cup {"filter_expression", "body"}) :
           kwargs[k] \notin {"absent", None}},
        IF kwargs["body"] \notin {"absent", None} THEN {"body"}
        ELSE IF kwargs["filter_expression"] \notin {"absent", None}
                /\ IsSearchAction(action)
          THEN {"filter_expression"}
        ELSE {},
        {},
        BodyFields(spec, api))

\* The parameters of the generated function, and the values tried.
GeneratedArgs ==
  [AllParams(EnvironmentApis, ApiSpec) -> {None, "v"}]

\* The keyword arguments tried on the dynamic tool.
GroupedKwargs ==
  [{"environmentId", "id", "limit", "engine_id", "hostname", "description",
    "filter_expression", "body"} -> {"absent", "v"}]

\* The generated unified tool is called, once.
CallGeneratedTool(action, args) ==
  /\ tx.kind = "none"
  /\ tx' = GeneratedTool(EnvironmentApis, ApiSpec, action, args)
  /\ UNCHANGED <<regVars, seqVars, concVars, fnVars, cfg, req, grp>>

\* The dynamic unified tool of the same entries is called with an action
\* of its registry, once.
CallGroupedTool(action, kwargs) ==
  /\ tx.kind = "none"
  /\ \E i \in DOMAIN EnvironmentApis : EnvironmentApis[i].action = action
  /\ tx' = GroupedRequest(ApiSpec, EnvironmentApis[LastWith(EnvironmentApis, action)],
                          action, kwargs)
  /\ UNCHANGED <<regVars, seqVars, concVars, fnVars, cfg, req, grp>>

NextBuild ==
  \/ \E a \in ActionInputs(EnvironmentApis), args \in GeneratedArgs :
       CallGeneratedTool(a, args)
  \/ \E a \in ActionInputs(EnvironmentApis), kw \in GroupedKwargs :
       CallGroupedTool(a, kw)

SpecBuild == Init /\ [][NextBuild]_vars

\* ------------------------------------------------------------ properties
\* The domain tools a toolset stands for on the host: its groups that have
\* at least one entry, a group named like a meta-tool not counted.
ExpectedTools(toolset_name) ==
  IF toolset_name = None THEN {} ELSE ToolsToAdd(toolset_name) \ MetaToolNames

DomainTools(host) == host \ MetaToolNames

RegistryAsFound == [cur |-> last.pre.cur, reg |-> last.pre.reg, host |-> last.pre.host]

\* C1: after any sequence of enable_toolset / disable_toolset calls, whatever
\* the host's add/remove calls and the catalog loads did, the tracked names
\* are exactly the groups of the active toolset, and none when none is active.
C1_RegisteredIsActiveGroups == registered = ExpectedTools(current)

\* C2: an enable_toolset of a known name that ends in an error leaves the
\* active toolset, the tracked names and the host's tools as it found them.
C2_FailedEnableChangesNothing ==
  (last.op = "enable" /\ last.arg \in GetAvailableToolsets /\ last.status = "error")
    => Snapshot = RegistryAsFound

\* C3: after enable_toolset(A) then enable_toolset(B), both answered
\* "enabled", the domain tools on the host are exactly B's groups.
C3_SecondEnableReplacesFirst ==
  (/\ prev.op = "enable" /\ prev.status = "enabled"
   /\ last.op = "enable" /\ last.status = "enabled")
    => DomainTools(hostTools) = ExpectedTools(last.arg)

\* C4: enable_toolset and disable_toolset exclude each other, so that once
\* every call has returned (and no host call or load raised) the tracked
\* names are those of the one active toolset.
C4_CallsAreSerialised ==
  (NoCallRunning /\ faults = 0) => registered = ExpectedTools(current)

\* What the call running on thread t, alone and unfailing, leaves behind.
AfterCall(t) ==
  IF pc[t] \in EnablePcs
    THEN EnableToolsetResult(pre[t], appReady, inventory, targ[t], {}, {})
    ELSE DisableToolsetResult(pre[t], {})

\* C5: a reader running beside one enable_toolset or disable_toolset sees
\* the registry and host either as the call found them or as it leaves
\* them, never a state in between.
C5_ReaderSeesBeforeOrAfter ==
  \A t \in Threads :
    (obs.valid /\ Running(t) /\ ~overlapped /\ faults = 0)
      => \/ [cur |-> obs.cur, reg |-> obs.reg, host |-> obs.host] = pre[t]
         \/ /\ obs.cur = AfterCall(t).cur
            /\ obs.reg = AfterCall(t).reg
            /\ obs.host = AfterCall(t).host

\* C6: disable_toolset with no active toolset answers already_minimal,
\* calls neither add nor remove on the host and changes nothing; so does
\* every repetition.
C6_DisableWhenIdleIsNoOp ==
  (last.op = "disable" /\ last.pre.cur = None)
    => /\ last.status = "already_minimal"
       /\ last.calls = 0
       /\ Snapshot = RegistryAsFound

C6_Witness ==
  /\ last.op = "disable" /\ last.status = "already_minimal"
  /\ prev.op = "disable" /\ prev.status = "already_minimal"
  /\ DomainTools(hostTools) # {}

\* C7: enable_toolset of an unknown name answers with an error listing the
\* known toolsets, calls neither add nor remove on the host and changes
\* nothing, whatever was active.
C7_UnknownNameIsRejected ==
  (last.op = "enable" /\ last.arg \notin GetAvailableToolsets)
    => /\ last.error = "unknown_toolset"
       /\ last.available = GetAvailableToolsets
       /\ last.calls = 0
       /\ Snapshot = RegistryAsFound

C7_Witness ==
  /\ last.op = "enable" /\ last.arg = "no_such_toolset"
  /\ current = "self_service_provision" /\ registered # {}

\* C8: disable_toolset with toolset x active answers "disabled" only with
\* no toolset active and none of the tools tracked for x left on the host.
C8_DisableRemovesEveryTool ==
  (last.op = "disable" /\ last.status = "disabled")
    => current = None /\ hostTools \cap last.pre.reg = {}

\* C9: no call removes a meta-tool from the host or puts a meta-tool's
\* name among the tracked names.
C9_MetaToolsStay ==
  /\ MetaToolNames \subseteq hostTools
  /\ registered \cap MetaToolNames = {}

\* A toolset with a group named enable_toolset was enabled, then disabled.
C9_Witness ==
  /\ last.op = "disable" /\ last.status = "disabled"
  /\ last.pre.cur = "platform_admin" /\ last.pre.reg # {}

\* C10: list_available_toolsets, get_toolset_tools and
\* check_operation_confirmation change neither the active toolset nor the
\* tracked names nor the host's tools, also when they answer with an error.
C10_ReadsChangeNothing ==
  last.op \in {"list", "describe", "classify"} => Snapshot = RegistryAsFound

C10_Witness ==
  /\ last.op = "describe" /\ last.error = "unknown_toolset"
  /\ prev.op = "classify"
  /\ current # None /\ registered # {}

\* The rules whose method pattern is * or the request method itself and
\* whose path pattern matches the request path.
ApplyingRules(method, path) ==
  {i \in DOMAIN ConfirmationRules :
     /\ ConfirmationRules[i].method = "*" \/ ConfirmationRules[i].method = method
     /\ PathMatches(path, ConfirmationRules[i].path_pattern)}

FirstOf(S) == CHOOSE i \in S : \A j \in S : i <= j

\* C14: get_confirmation_for_operation answers with the tier and message of
\* the first rule, in file order, whose method and path patterns both
\* match; a later matching rule never decides.
C14_FirstMatchingRuleDecides ==
  (pol.op = "classify" /\ ApplyingRules(pol.method, pol.path) # {})
    => /\ pol.result.level =
            ConfirmationRules[FirstOf(ApplyingRules(pol.method, pol.path))].level[1]
       /\ pol.result.message =
            ConfirmationRules[FirstOf(ApplyingRules(pol.method, pol.path))].message

\* DELETE of a job: the general rule stands before the more specific one.
C14_Witness ==
  /\ pol.op = "classify" /\ pol.method = "DELETE" /\ pol.path = <<"jobs", "job-1">>
  /\ Cardinality(ApplyingRules(pol.method, pol.path)) = 2
  /\ pol.result.level = "standard"

\* A string cut at its slashes.
RECURSIVE SegmentsFrom(_, _, _)
SegmentsFrom(str, i, seg) ==
  IF i > Len(str) THEN <<seg>>
  ELSE IF str[i] = "/" THEN <<seg>> \o SegmentsFrom(str, i + 1, <<>>)
  ELSE SegmentsFrom(str, i + 1, Append(seg, str[i]))

SegmentsOf(str) == SegmentsFrom(str, 1, <<>>)

IsPlaceholder(seg) ==
  Len(seg) >= 3 /\ seg[1] = "{" /\ seg[Len(seg)] = "}"

\* Same number of segments, literal segments equal, a placeholder against
\* one non-empty segment.
SegmentsMatch(path, pattern) ==
  /\ Len(SegmentsOf(path)) = Len(SegmentsOf(pattern))
  /\ \A i \in 1..Len(SegmentsOf(pattern)) :
       IF IsPlaceholder(SegmentsOf(pattern)[i])
         THEN SegmentsOf(path)[i] # <<>>
         ELSE SegmentsOf(path)[i] = SegmentsOf(pattern)[i]

\* C15: a rule's path pattern matches a request path exactly when both have
\* the same number of segments, literal segments are equal and every
\* {identifier} stands against one non-empty segment; never a proper prefix
\* or suffix of the request path.
C15_PatternMatchesWholeSegments ==
  pol.op = "match" => (pol.matched <=> SegmentsMatch(pol.str, pol.pat))

\* C16: a rule with method * applies to every request method, any other
\* only to the request method equal to it character for character; with no
\* applying rule the answer is tier none, not conditional, no threshold.
C16_MethodPatternIsExactOrStar ==
  pol.op = "classify"
    => /\ ApplyingRules(pol.method, pol.path) = {} => pol.result = NoConfirmation
       /\ ApplyingRules(pol.method, pol.path) # {}
            => pol.result.level \in
                 {ConfirmationRules[i].level[1] : i \in ApplyingRules(pol.method, pol.path)}

\* A lower-case delete of a VDB: the DELETE rule is passed over, the * rule
\* applies.
C16_Witness ==
  /\ pol.op = "classify" /\ pol.method = "delete" /\ pol.path = <<"vdbs", "vdb-1">>
  /\ pol.result.level = "standard"

\* A lower-case delete of a snapshot: no rule applies.
C16_WitnessNone ==
  /\ pol.op = "classify" /\ pol.method = "delete"
  /\ pol.path = <<"snapshots", "snap-1">> /\ pol.result = NoConfirmation

\* C11: a unified tool invoked with an action whose method and path are
\* classified above none answers confirmation_required and calls no
\* transport unless confirmed=True is passed, and with it goes on to the
\* transport call; for generated and pre-generated tools alike.
C11_UnconfirmedCallIsHeldBack ==
  (call.kind # "none" /\ call.tier # "none")
    => IF call.kwargs["confirmed"] = "True"
         THEN call.result.transport.called
         ELSE /\ call.result.status = "confirmation_required"
              /\ ~call.result.transport.called

\* The path parameters of the invoked action that were not passed.
OmittedParams ==
  {p \in Range(PathParams(call.path)) : call.kwargs[p] = "absent"}

\* C12: a known action invoked without a parameter its path template names
\* answers "Missing required parameter" and calls no transport (a call held
\* back for confirmation aside); no transport call carries a path with a
\* placeholder left in it.
C12_MissingPathParameterIsReported ==
  call.kind # "none"
    => /\ (call.action \in call.members /\ OmittedParams # {})
            => /\ ~call.result.transport.called
               /\ call.result.status \in {"missing_parameter", "confirmation_required"}
               /\ call.result.status = "missing_parameter"
                    => call.result.param \in OmittedParams
       /\ call.result.transport.called
            => Range(call.result.transport.path) \cap PathParamKeys = {}

\* C13: an action that is not a member of the group answers with an error
\* that lists the group's action names and calls no transport, whatever
\* else is passed.
C13_UnknownActionIsRejected ==
  (call.kind # "none" /\ call.action \notin call.members)
    => /\ call.result.status = "unknown_action"
       /\ call.result.available = call.members
       /\ ~call.result.transport.called

C13_Witness ==
  /\ call.kind = "dynamic" /\ call.tool = "vdb_tool" /\ call.action = "bogus"
  /\ call.kwargs["confirmed"] = "True" /\ call.kwargs["{vdbId}"] = "id-1"
  /\ Cardinality(call.members) = 4

\* The toolsets a file names in its @inherit lines.
InheritsOf(toolset_name) ==
  {DirectoryFiles[toolset_name][i].name :
     i \in {j \in DOMAIN DirectoryFiles[toolset_name] :
              DirectoryFiles[toolset_name][j].k = "inherit"}}

\* C17: a toolset with an @inherit line, wherever the line stands, holds
\* every group of the parent and in it every entry of the parent's group;
\* and a toolset loaded again gives what it gave before.
C17_ChildHoldsParentGroups ==
  (ld.op = "load" /\ ld.ok)
    => /\ \A a \in InheritsOf(ld.name) :
            /\ a \in DOMAIN ld.cache
            /\ \A g \in Range(ld.cache[a].order) :
                 /\ g \in Range(ld.result.order)
                 /\ Range(ld.cache[a].apis[g]) \subseteq Range(ld.result.apis[g])
       /\ ld.same

\* The toolset that inherits in the middle of its file, loaded a second time.
C17_Witness ==
  /\ ld.op = "load" /\ ld.ok /\ ld.name = "continuous_data"
  /\ "continuous_data" \in DOMAIN ld.before
  /\ "refresh_vdb" \in {ld.result.apis["vdb_tool"][i].action :
                          i \in DOMAIN ld.result.apis["vdb_tool"]}

\* C18: in a loaded toolset no group holds the same method, path and
\* action twice.
C18_MembersAreDistinct ==
  (ld.op = "load" /\ ld.ok)
    => \A g \in DOMAIN ld.result.apis :
         \A i, j \in DOMAIN ld.result.apis[g] :
           i # j => ld.result.apis[g][i] # ld.result.apis[g][j]

\* C19: in a loaded toolset no group holds two entries with one action name.
C19_ActionNamesAreUnique ==
  (ld.op = "load" /\ ld.ok)
    => \A g \in DOMAIN ld.result.apis :
         \A i, j \in DOMAIN ld.result.apis[g] :
           i # j => ld.result.apis[g][i].action # ld.result.apis[g][j].action

\* The file of the toolset and of everything it inherits from is there.
RECURSIVE Loadable(_, _, _)
Loadable(toolset_name, files, depth) ==
  /\ toolset_name \in files
  /\ depth <= MaxInheritDepth
  /\ \A a \in InheritsOf(toolset_name) : Loadable(a, files, depth + 1)

\* C20: a load fails exactly when the toolset's file or an inherited
\* parent's file is absent; the failed load stores nothing under the
\* toolset's name and leaves every stored result as it was, so that other
\* toolsets load as before and the toolset loads once its parent is there.
C20_FailedLoadLeavesCacheAlone ==
  ld.op = "load"
    => /\ ld.ok <=> Loadable(ld.name, ld.files, 0)
       /\ ~ld.ok => /\ ld.name \notin DOMAIN ld.cache
                    /\ \A n \in DOMAIN ld.before :
                         n \in DOMAIN ld.cache /\ ld.cache[n] = ld.before[n]
       /\ ld.same

\* reporting_insights loads after its parent's file appeared, having failed
\* before, with other toolsets stored meanwhile.
C20_Witness ==
  /\ ld.op = "load" /\ ld.ok /\ ld.name = "reporting_insights"
  /\ "reporting_insights" \in ld.failed
  /\ "self_service" \in DOMAIN ld.before

\* The failed load itself, with results of other toolsets stored.
C20_WitnessFailure ==
  /\ ld.op = "load" /\ ~ld.ok /\ ld.name = "reporting_insights"
  /\ "self_service_provision" \in DOMAIN ld.before

\* What a load that reads the files as they stand would return.
Reread ==
  CASE cfg.op = "load_toolset_apis" -> CachedFlat(cfg.dir, << >>, cfg.name, 0).val
    [] cfg.op = "load_toolset_grouped_apis" ->
         CachedGrouped(cfg.dir, << >>, cfg.name, 0).val
    [] cfg.op = "load_tool_grouping" -> LoadToolGrouping(cfg.mapping)
    [] cfg.op = "load_manual_confirmation_rules" ->
         LoadManualConfirmationRules(cfg.rules)
    [] OTHER -> cfg.result

IsLoad ==
  cfg.op \in {"load_toolset_apis", "load_toolset_grouped_apis",
              "load_tool_grouping", "load_manual_confirmation_rules"}

\* C21: once clear_cache() has been called after the last change to the
\* files, every load (flat or grouped toolset, grouping mapping,
\* confirmation rules) returns what the files hold now.
C21_ClearCacheMakesLoadsReread ==
  (IsLoad /\ cfg.clean /\ cfg.kind = "ok") => cfg.result = Reread

\* C27: a load ends with a result or with the loader's own configuration
\* error, also when the @inherit directives form a cycle, and a load that
\* does not succeed stores nothing.
C27_CycleIsAConfigurationError ==
  (cfg.op \in {"load_toolset_apis", "load_toolset_grouped_apis"})
    => /\ cfg.kind \in {"ok", "ValueError"}
       /\ cfg.kind # "ok" => (cfg.name \notin DOMAIN cfg.flat
                               /\ cfg.name \notin DOMAIN cfg.grouped)

\* The attempts made so far that failed.
FailedAttempts == SelectSeq(req.outcomes, LAMBDA o : o # "ok")

\* What holds of make_request at every step.
RetryBudgetKept ==
  /\ Len(req.outcomes) <= req.max_retries
  /\ \A k \in 1..Len(req.outcomes) :
       req.outcomes[k] = "ok" => (k = Len(req.outcomes) /\ req.pc = "done")
  /\ req.result = "returned"
       <=> (req.outcomes # << >> /\ req.outcomes[Len(req.outcomes)] = "ok")
  /\ \A k \in 1..Len(req.slept) : req.slept[k] = 2 ^ (k - 1)
  /\ Len(req.slept) = IF req.pc = "attempting" THEN Len(FailedAttempts)
                      ELSE IF req.pc = "sleeping" THEN Len(FailedAttempts) - 1
                      ELSE IF Len(FailedAttempts) = Len(req.outcomes)
                             /\ req.outcomes # << >>
                        THEN Len(FailedAttempts) - 1
                      ELSE Len(FailedAttempts)
  /\ (req.pc = "done" /\ req.result # "returned")
       => (Len(FailedAttempts) = req.max_retries
             /\ req.result \in {"raised e", "raised Exception(error_msg)",
                                "raised All retry attempts failed"})

\* C22: make_request makes at most max_retries attempts, returns at the
\* first attempt that succeeds, waits 2^k seconds after failed attempt k
\* only when another attempt follows, raises after the last failed attempt,
\* and always ends.
C22_RetriesAreBoundedAndEnd ==
  /\ []RetryBudgetKept
  /\ (req.pc # "idle") ~> (req.pc = "done")

C22_Witness ==
  /\ req.pc = "done"
  /\ req.max_retries = 3
  /\ req.outcomes = <<"Exception", "HTTPStatusError", "HTTPStatusError">>
  /\ req.slept = <<1, 2>>
  /\ req.result = "raised Exception(error_msg)"

C22_WitnessReturned ==
  /\ req.pc = "done"
  /\ req.outcomes = <<"HTTPStatusError", "ok">>
  /\ req.slept = <<1>>
  /\ req.result = "returned"

\* The maps the five meta-tools build; "raised" is no map.
MetaToolStatuses ==
  {"none", "ok", "enabled", "error", "disabled", "already_minimal",
   "standard", "manual", "retention_check"}

\* The call last made met a failure: an unknown name, a server without its
\* inventory, a catalog that does not load, a directory that cannot be
\* read, or a method that is no string.
CallFailed ==
  \/ /\ last.op \in {"enable", "describe"}
     /\ last.arg \notin GetAvailableToolsets
  \/ /\ last.op = "enable"
     /\ ~appReady \/ ~Catalog[last.arg].ok
  \/ /\ last.op = "describe"
     /\ ~Catalog[last.arg].ok
  \/ last.op = "list" /\ last.arg = "OSError"
  \/ last.op = "classify" /\ last.arg = None

NormalizedPath(str) ==
  LET cut == IF \E i \in DOMAIN str : str[i] = "{"
               THEN SubSeq(str, 1, Cardinality({i \in DOMAIN str :
                                      \A j \in 1..i : str[j] # "{"}))
               ELSE str
      keep == {n \in 0..Len(cut) :
                 /\ n > 0 => cut[n] # "/"
                 /\ \A j \in (n + 1)..Len(cut) : cut[j] = "/"}
  IN SubSeq(cut, 1, CHOOSE n \in keep : TRUE)

\* The prefixes of group j of the mapping that match the path, each without
\* the "/" at its end.
MatchingPrefixes(grouping, j, str) ==
  {NormalizedPath(grouping[j].patterns[k]) : k \in DOMAIN grouping[j].patterns}
    \cap {SubSeq(NormalizedPath(str), 1, n) : n \in 0..Len(NormalizedPath(str))}

\* The groups of the mapping with a matching prefix.
MatchingGroups(grouping, str) ==
  {j \in DOMAIN grouping : MatchingPrefixes(grouping, j, str) # {}}

\* C24: get_tool_for_api returns the first group of the mapping, in its
\* order, that has a prefix of the normalised path among its prefixes, and
\* unknown_tool when no group has one.
C24_FirstMatchingGroupIsReturned ==
  grp.op = "get_tool_for_api" =>
    grp.result =
      IF MatchingGroups(LoadToolGrouping(grp.source), grp.path) = {}
        THEN "unknown_tool"
        ELSE LoadToolGrouping(grp.source)
               [FirstOf(MatchingGroups(LoadToolGrouping(grp.source), grp.path))].tool_name

C24_Witness ==
  /\ grp.op = "get_tool_for_api"
  /\ grp.path = <<"/", "b", "/", "{">>
  /\ Len(grp.source) = 3 /\ grp.source[1].tool_name = "a_tool"
  /\ grp.result = "b_tool"

C24_WitnessUnknown ==
  /\ grp.op = "get_tool_for_api"
  /\ grp.path = <<"/", "{", "a", "b">>
  /\ grp.source # << >>
  /\ grp.result = "unknown_tool"

\* C25: when prefixes of several groups match the path, get_tool_for_api
\* returns the group that owns the longest of them, whatever the order of
\* the groups in the mapping.
C25_LongestPrefixWins ==
  (grp.op = "get_tool_for_api"
     /\ MatchingGroups(LoadToolGrouping(grp.source), grp.path) # {})
    => \E j \in MatchingGroups(LoadToolGrouping(grp.source), grp.path) :
         /\ grp.result = LoadToolGrouping(grp.source)[j].tool_name
         /\ \E p \in MatchingPrefixes(LoadToolGrouping(grp.source), j, grp.path) :
              \A i \in MatchingGroups(LoadToolGrouping(grp.source), grp.path) :
                \A q \in MatchingPrefixes(LoadToolGrouping(grp.source), i, grp.path) :
                  Len(q) <= Len(p)

\* The parameters the caller supplied with a value.
Supplied == {n \in DOMAIN tx.args : tx.args[n] \notin {"absent", None}}

\* The places of the request a supplied parameter went to.
PlacesOf(n) ==
  (IF n \in tx.inPath THEN {"path"} ELSE {})
    \cup (IF n \in tx.query THEN {"query"} ELSE {})
    \cup (IF n \in tx.body THEN {"body"} ELSE {})

\* C26: in the request a unified tool builds, no supplied parameter is in
\* more than one of path, query string and body, and for POST, PUT and
\* PATCH the supplied body fields of the schema are in the body and not in
\* the query string.
C26_EachParameterGoesToOnePlace ==
  tx.status = "sent" =>
    /\ \A n \in Supplied : Cardinality(PlacesOf(n)) <= 1
    /\ tx.method \in BodyMethods =>
         \A n \in Supplied \cap tx.fields : PlacesOf(n) = {"body"}

\* C30: in the request a generated unified tool builds, every parameter
\* tagged as required for the action and supplied is in the path, the
\* query string or the body.
C30_RequiredParameterIsSent ==
  (tx.kind = "generated" /\ tx.status = "sent") =>
    \A n \in Supplied \cap tx.required : PlacesOf(n) # {}

\* C28: a dynamically generated unified tool never passes the
\* acknowledgment flag on: whatever the tier of the action, no transport
\* call has confirmed among its parameters.
C28_ConfirmedIsNotForwarded ==
  (call.kind = "dynamic" /\ call.result.transport.called)
    => "confirmed" \notin call.result.transport.params

\* The requires_confirmation field of check_operation_confirmation's answer.
RequiresConfirmation(method, api_path) ==
  CheckOperationConfirmationResult(Snapshot, method, api_path).status # "none"

\* C29: a dynamically generated unified tool invoked with a known action
\* and without confirmed=True answers confirmation_required exactly when
\* check_operation_confirmation says the entry's method and path require
\* confirmation, the method spelled as in the catalog or in upper case.
C29_PreflightAgreesWithGate ==
  (call.kind = "dynamic" /\ call.action \in call.members
     /\ call.kwargs["confirmed"] # "True")
    => \A m \in {call.method, Upper(call.method)} :
         (call.result.status = "confirmation_required")
           <=> RequiresConfirmation(m, call.path)

====
